---- MODULE Spec2Model ----
(***************************************************************************)
(* Model of the logs-gateway emission pipeline (LogsGateway.emit), its     *)
(* sanitizer (LogSanitizer) and its per-run shadow recorder (ShadowSink).  *)
(*                                                                         *)
(* Metadata is modelled as a JavaScript object graph: a heap of objects    *)
(* and arrays addressed by reference, so that reference cycles and shared  *)
(* references exist in the model as they do in the program.                *)
(***************************************************************************)
EXTENDS Integers, Sequences, FiniteSets, TLC

(***************************************************************************)
(* Bounds of the model                                                     *)
(***************************************************************************)
\* number of steps (recorder calls and clock advances) in one behaviour
MaxSteps == 4
\* largest rolling buffer capacity (rollingBuffer.maxEntries) explored
MaxBuf == 2

(***************************************************************************)
(* JavaScript values                                                       *)
(*   [none |-> TRUE]   undefined                                           *)
(*   [str |-> s]       a string                                            *)
(*   [num |-> n]       a number                                            *)
(*   [bool |-> b]      a boolean                                           *)
(*   [ref |-> i]       a reference to object/array i of the caller's heap  *)
(*   [obj |-> fields]  an object created by the gateway (fields in         *)
(*                     insertion order, each [k |-> key, v |-> value])     *)
(*   [arr |-> items]   an array created by the gateway                     *)
(* A heap is a sequence of nodes [obj |-> fields] or [arr |-> items] whose *)
(* values are strings, numbers, booleans or references.                    *)
(***************************************************************************)
Undef == [none |-> TRUE]
Str(s) == [str |-> s]
Num(n) == [num |-> n]
Bool(b) == [bool |-> b]
Ref(i) == [ref |-> i]
Obj(fields) == [obj |-> fields]
Arr(items) == [arr |-> items]
F(key, val) == [k |-> key, v |-> val]

IsUndef(v) == "none" \in DOMAIN v
IsStr(v) == "str" \in DOMAIN v
IsRef(v) == "ref" \in DOMAIN v
IsObj(v) == "obj" \in DOMAIN v
IsArr(v) == "arr" \in DOMAIN v

\* the node a value denotes: the heap node of a reference, else the value
Deref(heap, v) == IF IsRef(v) THEN heap[v.ref] ELSE v

\* is string sub a substring of string s (String.prototype.includes)
StrIncludes(s, sub) ==
  \E i \in 1..(Len(s) + 1) :
    /\ i + Len(sub) - 1 <= Len(s)
    /\ SubSeq(s, i, i + Len(sub) - 1) = sub

\* property read v[key] (v?.key): undefined when v has no such property
Prop(heap, v, key) ==
  LET n == Deref(heap, v)
  IN IF IsObj(n)
     THEN LET idx == {i \in 1..Len(n.obj) : n.obj[i].k = key}
          IN IF idx = {} THEN Undef
             ELSE n.obj[CHOOSE i \in idx : \A j \in idx : j <= i].v
     ELSE Undef

\* JavaScript truthiness of a value
Truthy(v) ==
  IF IsUndef(v) THEN FALSE
  ELSE IF IsStr(v) THEN v.str # ""
  ELSE IF "num" \in DOMAIN v THEN v.num # 0
  ELSE IF "bool" \in DOMAIN v THEN v.bool
  ELSE TRUE

\* v.includes(x) for an array or a string v
Includes(heap, v, x) ==
  LET n == Deref(heap, v)
  IN IF IsArr(n) THEN \E i \in 1..Len(n.arr) : n.arr[i] = Str(x)
     ELSE IF IsStr(n) THEN StrIncludes(n.str, x)
     ELSE FALSE

\* own enumerable properties copied by an object spread {...v}
SpreadFields(heap, v) ==
  LET n == Deref(heap, v)
  IN IF IsObj(n) THEN n.obj
     ELSE IF IsStr(n)
          THEN [i \in 1..Len(n.str) |-> F(ToString(i - 1), Str(SubSeq(n.str, i, i)))]
     ELSE <<>>

\* assignment o[key] = val on a field list: replaces in place or appends
SetField(fields, key, val) ==
  IF \E i \in 1..Len(fields) : fields[i].k = key
  THEN [i \in 1..Len(fields) |-> IF fields[i].k = key THEN F(key, val) ELSE fields[i]]
  ELSE Append(fields, F(key, val))

(***************************************************************************)
(* Strings.  The strings the model passes through the sanitizer are made   *)
(* of letters, digits, '_', '-', '[', ']' and spaces.                      *)
(***************************************************************************)
LowerChars == <<"a","b","c","d","e","f","g","h","i","j","k","l","m",
                "n","o","p","q","r","s","t","u","v","w","x","y","z">>
UpperChars == <<"A","B","C","D","E","F","G","H","I","J","K","L","M",
                "N","O","P","Q","R","S","T","U","V","W","X","Y","Z">>
DigitChars == {"0","1","2","3","4","5","6","7","8","9"}
LetterChars == {LowerChars[i] : i \in 1..26} \cup {UpperChars[i] : i \in 1..26}

CharAt(s, i) == SubSeq(s, i, i)

\* String.prototype.toLowerCase on one character and on a string
LowerChar(c) ==
  IF \E i \in 1..26 : UpperChars[i] = c
  THEN LowerChars[CHOOSE i \in 1..26 : UpperChars[i] = c]
  ELSE c

RECURSIVE ToLower(_)
ToLower(s) ==
  IF Len(s) = 0 THEN ""
  ELSE LowerChar(CharAt(s, 1)) \o ToLower(SubSeq(s, 2, Len(s)))

\* \w of a regular expression, and the class [A-Za-z0-9_-]
IsWordChar(c) == c \in LetterChars \cup DigitChars \cup {"_"}
IsTokenChar(c) == IsWordChar(c) \/ c = "-"

\* \b at position i: between characters i-1 and i exactly one is a word char
WordAt(s, i) == i \in 1..Len(s) /\ IsWordChar(CharAt(s, i))
Boundary(s, i) == WordAt(s, i - 1) # WordAt(s, i)

AllIn(s, set) == \A i \in 1..Len(s) : CharAt(s, i) \in set

\* ends j of the matches of \b[A-Za-z0-9_-]{min,}\b that start at i
TokenEnds(s, i, min) ==
  IF ~Boundary(s, i) THEN {}
  ELSE {j \in (i + min - 1)..Len(s) :
          /\ \A k \in i..j : IsTokenChar(CharAt(s, k))
          /\ Boundary(s, j + 1)}

SetMax(S) == CHOOSE x \in S : \A y \in S : y <= x

\* str.replace(/\b[A-Za-z0-9_-]{min,}\b/g, m => keepWords && wordlike(m) ? m : mask)
\* scanning from position p (greedy match, leftmost first)
RECURSIVE ReplaceTokens(_,_,_,_,_)
ReplaceTokens(s, p, min, keepWords, mask) ==
  IF p > Len(s) THEN ""
  ELSE LET ends == TokenEnds(s, p, min)
       IN IF ends = {}
          THEN CharAt(s, p) \o ReplaceTokens(s, p + 1, min, keepWords, mask)
          ELSE LET j == SetMax(ends)
                   m == SubSeq(s, p, j)
                   keep == keepWords /\ (AllIn(m, DigitChars) \/ AllIn(m, LetterChars))
               IN (IF keep THEN m ELSE mask)
                    \o ReplaceTokens(s, j + 1, min, keepWords, mask)

\* the shortest generic API key and the shortest GCP key
ApiKeyMinLen == 20
GcpKeyMinLen == 24

\* parseInt of a digit character
DigitList == <<"0", "1", "2", "3", "4", "5", "6", "7", "8", "9">>
parseInt(char) == (CHOOSE i \in 1..Len(DigitList) : DigitList[i] = char) - 1

\* the loop of isValidCreditCard from position i down to the first character
RECURSIVE LuhnLoop(_,_,_)
LuhnLoop(cardNumber, i, isEven) ==
  IF i < 1 THEN 0
  ELSE LET digit == parseInt(CharAt(cardNumber, i))
       IN (IF ~isEven THEN digit
           ELSE IF 2 * digit > 9 THEN 2 * digit - 9 ELSE 2 * digit)
          + LuhnLoop(cardNumber, i - 1, ~isEven)

\* a validation that tests the length and the digits only
isValidCreditCard_lengthOnly(cardNumber) ==
  Len(cardNumber) \in 13..19 /\ AllIn(cardNumber, DigitChars)

\* LogSanitizer.isValidCreditCard: /^\d{13,19}$/ and the Luhn checksum
isValidCreditCard(cardNumber) ==
  /\ Len(cardNumber) \in 13..19
  /\ AllIn(cardNumber, DigitChars)
  /\ LuhnLoop(cardNumber, Len(cardNumber), FALSE) % 10 = 0

\* \d{4} at position p: the position after it, or 0
FourDigits(s, p) ==
  IF p >= 1 /\ p + 3 <= Len(s) /\ \A k \in p..(p + 3) : CharAt(s, k) \in DigitChars
  THEN p + 4 ELSE 0

\* [-\s]? at position p: the position after it
OptionalSeparator(s, p) ==
  IF p >= 1 /\ p <= Len(s) /\ CharAt(s, p) \in {"-", " "} THEN p + 1 ELSE p

\* (?:\d{4}[-\s]?){n - 1}\d{4} at position p: the position after it, or 0
RECURSIVE DigitGroups(_,_,_)
DigitGroups(s, p, n) ==
  IF FourDigits(s, p) = 0 THEN 0
  ELSE IF n = 1 THEN FourDigits(s, p)
  ELSE DigitGroups(s, OptionalSeparator(s, FourDigits(s, p)), n - 1)

\* the end of the match of /\b(?:\d{4}[-\s]?){3}\d{4}\b/ starting at p, or 0
CardEnd(s, p) ==
  IF Boundary(s, p) /\ DigitGroups(s, p, 4) # 0 /\ Boundary(s, DigitGroups(s, p, 4))
  THEN DigitGroups(s, p, 4) - 1 ELSE 0

\* match.replace(/[-\s]/g, '')
RECURSIVE StripSeparators(_)
StripSeparators(m) ==
  IF Len(m) = 0 THEN ""
  ELSE (IF CharAt(m, 1) \in {"-", " "} THEN "" ELSE CharAt(m, 1))
       \o StripSeparators(SubSeq(m, 2, Len(m)))

\* the credit card rule of detectCredentials, scanning from position p
RECURSIVE maskCreditCards(_,_,_)
maskCreditCards(s, p, mask) ==
  IF p > Len(s) THEN ""
  ELSE IF CardEnd(s, p) = 0 THEN CharAt(s, p) \o maskCreditCards(s, p + 1, mask)
  ELSE (IF isValidCreditCard(StripSeparators(SubSeq(s, p, CardEnd(s, p))))
        THEN mask ELSE SubSeq(s, p, CardEnd(s, p)))
       \o maskCreditCards(s, CardEnd(s, p) + 1, mask)

\* LogSanitizer.detectCredentials on the strings of the model: the generic
\* API key rule, the GCP key rule and the credit card rule.  The other
\* rules need a prefix no string of the model has ('eyJ', 'sk-', 'ak_',
\* 'AKIA', 'aws_secret'), a character none contains ('.', ':', '=', '+',
\* '/') or a run of 32 characters.
detectCredentials(sc, s) ==
  LET a == IF sc.detectAPIKeys
           THEN ReplaceTokens(s, 1, ApiKeyMinLen, TRUE, sc.maskWith) ELSE s
      g == IF sc.detectGCPKeys
           THEN ReplaceTokens(a, 1, GcpKeyMinLen, FALSE, sc.maskWith) ELSE a
  IN IF sc.detectCreditCards THEN maskCreditCards(g, 1, sc.maskWith) ELSE g

\* detectAndMask calls the sanitize-pii package and the fallback patterns
\* when one of these detectors is on
PiiDetection(sc) == sc.detectEmails \/ sc.detectIPs \/ sc.detectPhoneNumbers

\* LogSanitizer.detectAndMask: the PII rules (e-mail, IP, phone) need '@',
\* '.', ':' or digits and the XSS filter needs '<' or '>'.  The strings
\* with digits reach only sanitizers whose PII detectors are off, so only
\* detectCredentials changes a string of the model.
detectAndMask(sc, s) == detectCredentials(sc, s)

\* LogSanitizer.hashValue: the SHA-256 digest, as an opaque function of s
hashValue(s) == "sha256(" \o s \o ")"

(***************************************************************************)
(* LogSanitizer.sanitizeObject                                             *)
(* sc: sanitization configuration and sc.expire, the number of clock       *)
(* checks of this call that still find the 100ms budget unspent.           *)
(* st: [seen: the WeakSet of visited objects, t: clock checks made so far] *)
(* result: [san, red, trunc, st, err]; err is the thrown circular          *)
(* reference error.                                                        *)
(***************************************************************************)
SanResult(v, r, tr, st) == [san |-> v, red |-> r, trunc |-> tr, st |-> st, err |-> FALSE]
SanError(st) == [san |-> Undef, red |-> 0, trunc |-> FALSE, st |-> st, err |-> TRUE]

BudgetSpent(sc, st) == st.t >= sc.expire

\* a traversal without a depth limit
TooDeep_never(sc, depth) == FALSE

\* the depth test of sanitizeObject
TooDeep(sc, depth) == depth > sc.maxDepth

RECURSIVE sanitizeObject(_,_,_,_,_)
RECURSIVE SanItems(_,_,_,_,_,_)
RECURSIVE SanEntries(_,_,_,_,_,_)

sanitizeObject(sc, heap, v, depth, st) ==
  IF TooDeep(sc, depth) THEN SanResult(v, 0, TRUE, st)
  ELSE IF BudgetSpent(sc, st) THEN SanResult(Str(sc.maskWith), 1, TRUE, st)
  ELSE
    LET st1 == [st EXCEPT !.t = @ + 1]
    IN IF IsUndef(v) THEN SanResult(v, 0, FALSE, st1)
       ELSE IF IsRef(v) /\ v.ref \in st1.seen THEN SanError(st1)
       ELSE IF IsStr(v)
            THEN LET m == detectAndMask(sc, v.str)
                 IN SanResult(Str(m), IF m # v.str THEN 1 ELSE 0, FALSE, st1)
       ELSE IF ~IsRef(v) THEN SanResult(v, 0, FALSE, st1)
       ELSE LET st2 == [st1 EXCEPT !.seen = @ \cup {v.ref}]
                node == heap[v.ref]
                acc0 == [out |-> <<>>, red |-> 0, trunc |-> FALSE, st |-> st2]
            IN IF IsArr(node)
               THEN SanItems(sc, heap, node.arr, 1, depth, acc0)
               ELSE SanEntries(sc, heap, node.obj, 1, depth, acc0)

\* a key policy that consults the denylist first
keyPolicy_denylistFirst(sc, lowerKey) ==
  IF \E d \in sc.keysDenylist : ~StrIncludes(d, ".") /\ d = lowerKey THEN "mask"
  ELSE IF \E a \in sc.keysAllowlist : ~StrIncludes(a, ".") /\ a = lowerKey THEN "pass"
  ELSE IF lowerKey \in sc.fieldsHashInsteadOfMask THEN "hash"
  ELSE "none"

\* the policy sanitizeObject applies to the value of a key: the first of
\* allowlist, hash list and denylist that holds the lower-cased key
keyPolicy(sc, lowerKey) ==
  IF \E a \in sc.keysAllowlist : ~StrIncludes(a, ".") /\ a = lowerKey THEN "pass"
  ELSE IF lowerKey \in sc.fieldsHashInsteadOfMask THEN "hash"
  ELSE IF \E d \in sc.keysDenylist : ~StrIncludes(d, ".") /\ d = lowerKey THEN "mask"
  ELSE "none"

\* the loop over the items of an array
SanItems(sc, heap, items, i, depth, acc) ==
  IF i > Len(items) THEN SanResult(Arr(acc.out), acc.red, acc.trunc, acc.st)
  ELSE LET r == sanitizeObject(sc, heap, items[i], depth + 1, acc.st)
       IN IF r.err THEN r
          ELSE SanItems(sc, heap, items, i + 1, depth,
                        [out |-> Append(acc.out, r.san), red |-> acc.red + r.red,
                         trunc |-> acc.trunc \/ r.trunc, st |-> r.st])

\* the loop over Object.entries(obj) with the per-key policy
SanEntries(sc, heap, fields, i, depth, acc) ==
  IF i > Len(fields) THEN SanResult(Obj(acc.out), acc.red, acc.trunc, acc.st)
  ELSE
    LET key == fields[i].k
        value == fields[i].v
        policy == keyPolicy(sc, ToLower(key))
        put(val, r, tr, st) ==
          SanEntries(sc, heap, fields, i + 1, depth,
                     [out |-> Append(acc.out, F(key, val)), red |-> acc.red + r,
                      trunc |-> acc.trunc \/ tr, st |-> st])
    IN IF policy = "pass" THEN put(value, 0, FALSE, acc.st)
       ELSE IF policy = "hash"
            THEN IF IsStr(value) THEN put(Str(hashValue(value.str)), 1, FALSE, acc.st)
                 ELSE put(value, 0, FALSE, acc.st)
       ELSE IF policy = "mask" THEN put(Str(sc.maskWith), 1, FALSE, acc.st)
       ELSE IF IsStr(value)
            THEN LET m == detectAndMask(sc, value.str)
                 IN put(Str(m), IF m # value.str THEN 1 ELSE 0, FALSE, acc.st)
       ELSE LET r == sanitizeObject(sc, heap, value, depth + 1, acc.st)
            IN IF r.err THEN r ELSE put(r.san, r.red, r.trunc, r.st)

SanitizationMeta(red, tr) == Obj(<<F("redactionCount", Num(red)), F("truncated", Bool(tr))>>)

SanitizationErrorData ==
  Obj(<<F("_sanitization", Obj(<<F("sanitizationError", Bool(TRUE)),
                                 F("redactionCount", Num(0)),
                                 F("truncated", Bool(TRUE))>>))>>)

\* the traversal of the metadata by LogSanitizer.sanitize, from clock-check
\* state st
sanitizeMeta(sc, heap, meta, st) ==
  IF IsRef(meta) THEN sanitizeObject(sc, heap, meta, 0, st)
  ELSE SanResult(meta, 0, FALSE, st)

\* a result that keeps the message when the traversal raised an error
sanitizeResult_keepsMessage(sc, message, sMsg, msgSpent, r) ==
  IF r.err
  THEN [message |-> sMsg, data |-> SanitizationErrorData,
        redactionCount |-> IF sMsg # message THEN 1 ELSE 0, truncated |-> TRUE]
  ELSE [message |-> sMsg,
        data |-> IF IsObj(r.san)
                 THEN Obj(SetField(r.san.obj, "_sanitization",
                                   SanitizationMeta((IF sMsg # message THEN 1 ELSE 0) + r.red,
                                                    msgSpent \/ r.trunc)))
                 ELSE r.san,
        redactionCount |-> (IF sMsg # message THEN 1 ELSE 0) + r.red,
        truncated |-> msgSpent \/ r.trunc]

\* the result LogSanitizer.sanitize builds from the masked message sMsg and
\* the result r of the traversal; msgSpent: the time budget was found spent
\* before the message was masked
sanitizeResult(sc, message, sMsg, msgSpent, r) ==
  LET red == (IF sMsg # message THEN 1 ELSE 0) + r.red
      tr == msgSpent \/ r.trunc
  IN IF r.err
     THEN [message |-> sc.maskWith, data |-> SanitizationErrorData,
           redactionCount |-> 0, truncated |-> TRUE]
     ELSE [message |-> sMsg,
           data |-> IF IsObj(r.san)
                    THEN Obj(SetField(r.san.obj, "_sanitization", SanitizationMeta(red, tr)))
                    ELSE r.san,
           redactionCount |-> red, truncated |-> tr]

\* LogSanitizer.sanitize(message, meta); meta is Undef or Ref(1), the root of
\* the caller's heap.  Result [message, data, redactionCount, truncated].
sanitize(sc, heap, message, meta) ==
  IF ~sc.enabled
  THEN [message |-> message, data |-> meta, redactionCount |-> 0, truncated |-> FALSE]
  ELSE IF BudgetSpent(sc, [seen |-> {}, t |-> 0])
  THEN sanitizeResult(sc, message, message, TRUE,
                      sanitizeMeta(sc, heap, meta, [seen |-> {}, t |-> 0]))
  ELSE sanitizeResult(sc, message, detectAndMask(sc, message), FALSE,
                      sanitizeMeta(sc, heap, meta, [seen |-> {}, t |-> 1]))

(***************************************************************************)
(* The metadata objects callers pass (LogMeta).  "" and <<>> stand for an  *)
(* absent field.  The heap of a call:                                      *)
(*   1 the metadata object    2 its _routing object                        *)
(*   3 _routing.blockOutputs  4 _routing.allowedOutputs                    *)
(*   5 its _shadow object                                                  *)
(***************************************************************************)
StrItems(names) == [i \in 1..Len(names) |-> Str(names[i])]
Opt(cond, field) == IF cond THEN <<field>> ELSE <<>>

MkMeta(src, run, ovr, block, allow, secret, cyc) ==
  LET routed == block # <<>> \/ allow # <<>>
  IN << Obj(   Opt(src # "", F("source", Str(src)))
            \o Opt(run # "", F("runId", Str(run)))
            \o Opt(ovr # "", F("_shadow", Ref(5)))
            \o Opt(secret # "", F("password", Str(secret)))
            \o Opt(routed, F("_routing", Ref(2)))
            \o Opt(cyc, F("self", Ref(1)))),
        Obj(   Opt(block # <<>>, F("blockOutputs", Ref(3)))
            \o Opt(allow # <<>>, F("allowedOutputs", Ref(4)))),
        Arr(StrItems(block)),
        Arr(StrItems(allow)),
        Obj(Opt(ovr # "", F("runId", Str(ovr)))) >>

\* the caller's metadata argument: the root of its heap
MetaRoot == Ref(1)

\* does JSON.stringify throw on value v (a reference cycle is reachable)
RECURSIVE OnCycle(_,_,_)
OnCycle(heap, v, path) ==
  IF IsRef(v) /\ v.ref \in path THEN TRUE
  ELSE LET n == Deref(heap, v)
           kids == IF IsArr(n) THEN {n.arr[i] : i \in 1..Len(n.arr)}
                   ELSE IF IsObj(n) THEN {n.obj[i].v : i \in 1..Len(n.obj)}
                   ELSE {}
           below == IF IsRef(v) THEN path \cup {v.ref} ELSE path
       IN \E c \in kids : OnCycle(heap, c, below)

StringifyThrows(heap, v) == OnCycle(heap, v, {})

\* JSON.stringify(v) of a value on which it does not throw
RECURSIVE JsonStringify(_,_)
RECURSIVE JsonItems(_,_,_)
RECURSIVE JsonFields(_,_,_,_)
JsonStringify(heap, v) ==
  LET n == Deref(heap, v)
  IN IF IsStr(n) THEN "\"" \o n.str \o "\""
     ELSE IF "num" \in DOMAIN n THEN ToString(n.num)
     ELSE IF "bool" \in DOMAIN n THEN (IF n.bool THEN "true" ELSE "false")
     ELSE IF IsArr(n) THEN "[" \o JsonItems(heap, n.arr, 1) \o "]"
     ELSE IF IsObj(n) THEN "{" \o JsonFields(heap, n.obj, 1, TRUE) \o "}"
     ELSE "null"

JsonItems(heap, items, i) ==
  IF i > Len(items) THEN ""
  ELSE (IF i > 1 THEN "," ELSE "") \o JsonStringify(heap, items[i])
       \o JsonItems(heap, items, i + 1)

\* the properties of an object; a property whose value is undefined is left out
JsonFields(heap, fields, i, first) ==
  IF i > Len(fields) THEN ""
  ELSE IF IsUndef(fields[i].v) THEN JsonFields(heap, fields, i + 1, first)
  ELSE (IF first THEN "" ELSE ",") \o "\"" \o fields[i].k \o "\":"
       \o JsonStringify(heap, fields[i].v) \o JsonFields(heap, fields, i + 1, FALSE)

\* String(v): an object gives "[object Object]", an array its items joined by
\* commas (an array met again inside itself gives the empty string)
RECURSIVE StringOf(_,_,_)
RECURSIVE StringOfItems(_,_,_,_)
StringOf(heap, v, path) ==
  LET n == Deref(heap, v)
  IN IF IsStr(n) THEN n.str
     ELSE IF "num" \in DOMAIN n THEN ToString(n.num)
     ELSE IF "bool" \in DOMAIN n THEN (IF n.bool THEN "true" ELSE "false")
     ELSE IF IsObj(n) THEN "[object Object]"
     ELSE IF IsArr(n)
          THEN IF IsRef(v) /\ v.ref \in path THEN ""
               ELSE StringOfItems(heap, n.arr, 1,
                                  IF IsRef(v) THEN path \cup {v.ref} ELSE path)
     ELSE "undefined"

StringOfItems(heap, items, i, path) ==
  IF i > Len(items) THEN ""
  ELSE (IF i > 1 THEN "," ELSE "")
       \o (IF IsUndef(items[i]) THEN "" ELSE StringOf(heap, items[i], path))
       \o StringOfItems(heap, items, i + 1, path)

(***************************************************************************)
(* State                                                                   *)
(***************************************************************************)
VARIABLES
  cfg,                  \* InternalLoggingConfig of the logger (set at construction)
  now,                  \* the clock, Date.now()
  activeBetweenRanges,  \* LogsGateway.activeBetweenRanges
  activeRuns,           \* ShadowSink.activeRuns: runId -> ShadowRunMeta
  rollingBuffer,        \* ShadowSink.rollingBuffer
  files,                \* the data file of each run directory, a sequence of records
  index,                \* the index.json manifest of each run directory
  writes,               \* history: the calls of ShadowSink.write made so far
  runs,                 \* history: per run, its enable/disable session
  steps,                \* history: the number of steps taken
  last                  \* what the most recent write, enable or emit call did

vars == <<cfg, now, activeBetweenRanges, activeRuns, rollingBuffer, files, index,
          writes, runs, steps, last>>

RunIds == {"runA", "runB"}
NoIndex == [missing |-> TRUE]

(***************************************************************************)
(* ShadowSink                                                              *)
(***************************************************************************)
UpperChar(c) ==
  IF \E i \in 1..26 : LowerChars[i] = c
  THEN UpperChars[CHOOSE i \in 1..26 : LowerChars[i] = c]
  ELSE c

RECURSIVE ToUpper(_)
ToUpper(s) ==
  IF Len(s) = 0 THEN ""
  ELSE UpperChar(CharAt(s, 1)) \o ToUpper(SubSeq(s, 2, Len(s)))

\* a ?? b
Coalesce(a, b) == IF IsUndef(a) THEN b ELSE a
\* ...(v && { key: v })
OrUndef(v) == IF Truthy(v) THEN v ELSE Undef

\* the string of a run id value; "" for null, undefined and ''
RunIdOf(v) == IF IsStr(v) THEN v.str ELSE ""
\* the string of an optional string value; "" for undefined
StrOf(v) == IF IsStr(v) THEN v.str ELSE ""

\* a resolution that prefers the envelope runId to the _shadow.runId override
getTargetRunId_envelopeFirst(envelope) ==
  LET override == Prop(envelope.heap, Prop(envelope.heap, envelope.data, "_shadow"), "runId")
  IN IF Truthy(envelope.runId) THEN RunIdOf(envelope.runId)
     ELSE IF Truthy(override) THEN RunIdOf(override)
     ELSE ""

\* ShadowSink.getTargetRunId: "" stands for null
getTargetRunId(envelope) ==
  LET override == Prop(envelope.heap, Prop(envelope.heap, envelope.data, "_shadow"), "runId")
  IN IF Truthy(override) THEN RunIdOf(override)
     ELSE IF Truthy(envelope.runId) THEN RunIdOf(envelope.runId)
     ELSE ""

\* envelope._routing?.blockOutputs?.includes(name)
RoutingBlocks(envelope, name) ==
  Includes(envelope.heap, Prop(envelope.heap, envelope.routing, "blockOutputs"), name)

\* ShadowSink.shouldCapture
shouldCapture(sc, active, envelope) ==
  IF ~sc.enabled /\ DOMAIN active = {} THEN FALSE
  ELSE IF sc.respectRoutingBlocks
          /\ (RoutingBlocks(envelope, "file") \/ RoutingBlocks(envelope, "shadow"))
       THEN FALSE
  ELSE LET targetRunId == getTargetRunId(envelope)
       IN targetRunId # "" /\ targetRunId \in DOMAIN active

\* a buffer that, when full, refuses the new entry instead of dropping the oldest
addToBuffer_dropsNewest(sc, buffer, envelope, rawData, t) ==
  IF sc.maxEntries = 0 \/ Len(buffer) >= sc.maxEntries THEN buffer
  ELSE Append(buffer, [envelope |-> envelope, rawData |-> rawData, timestamp |-> t])

\* a buffer that is trimmed by age only
addToBuffer_ageOnly(sc, buffer, envelope, rawData, t) ==
  IF sc.maxEntries = 0 THEN buffer
  ELSE SelectSeq(Append(buffer, [envelope |-> envelope, rawData |-> rawData, timestamp |-> t]),
                 LAMBDA entry : sc.maxAgeMs > 0 => entry.timestamp >= t - sc.maxAgeMs)

\* ShadowSink.addToBuffer at clock t
addToBuffer(sc, buffer, envelope, rawData, t) ==
  IF sc.maxEntries = 0 THEN buffer
  ELSE LET pushed == Append(buffer, [envelope |-> envelope, rawData |-> rawData, timestamp |-> t])
           sized == IF Len(pushed) > sc.maxEntries THEN Tail(pushed) ELSE pushed
           cutoff == t - sc.maxAgeMs
       IN IF sc.maxAgeMs > 0
          THEN SelectSeq(sized, LAMBDA entry : entry.timestamp >= cutoff)
          ELSE sized

\* a record whose data has been replaced by the mask token
ShadowRecord_masked(envelope, rawData) == [envelope EXCEPT !.data = Str("[REDACTED]")]

\* the record ShadowSink.writeToFile serialises: the envelope with the raw data
ShadowRecord(envelope, rawData) == [envelope EXCEPT !.data = rawData]

\* does ShadowSink.writeToFile throw: the append fails (ioFail), the run
\* directory is gone, or the record cannot be serialised
writeToFileThrows(idx, runId, envelope, rawData, ioFail) ==
  \/ ioFail
  \/ idx[runId] = NoIndex
  \/ StringifyThrows(envelope.heap, rawData)

\* ShadowSink.initializeIndex and ShadowSink.updateIndex at clock t (of the
\* manifest, the fields the recorder reads back: updatedAt, ttlMs, entryCount)
initializeIndex(idx, runId, runMeta, t) ==
  [idx EXCEPT ![runId] = [updatedAt |-> t, ttlMs |-> runMeta.ttlMs, entryCount |-> 0]]

updateIndex(idx, runId, runMeta, t) ==
  IF idx[runId] = NoIndex THEN idx
  ELSE [idx EXCEPT ![runId].updatedAt = t, ![runId].entryCount = runMeta.entryCount]

\* the recorder's state as one value
ShadowState == [activeRuns |-> activeRuns, rollingBuffer |-> rollingBuffer,
                files |-> files, index |-> index]

\* ShadowSink.write(envelope, rawData) at clock t; result: the new recorder
\* state and `appended', the run whose file received the record ("" if none)
ShadowSinkWrite(sc, sh, envelope, rawData, t, ioFail) ==
  LET buffer == IF sc.maxEntries > 0
                THEN addToBuffer(sc, sh.rollingBuffer, envelope, rawData, t)
                ELSE sh.rollingBuffer
      sh1 == [sh EXCEPT !.rollingBuffer = buffer]
      targetRunId == getTargetRunId(envelope)
      skip == [sh |-> sh1, appended |-> ""]
  IN IF ~shouldCapture(sc, sh.activeRuns, envelope) THEN skip
     ELSE IF targetRunId = "" THEN skip
     ELSE IF targetRunId \notin DOMAIN sh.activeRuns THEN skip
     ELSE IF writeToFileThrows(sh.index, targetRunId, envelope, rawData, ioFail) THEN skip
     ELSE LET runMeta == [sh.activeRuns[targetRunId] EXCEPT !.entryCount = @ + 1]
          IN [sh |-> [activeRuns |-> [sh.activeRuns EXCEPT ![targetRunId] = runMeta],
                      rollingBuffer |-> buffer,
                      files |-> [sh.files EXCEPT ![targetRunId] =
                                   Append(@, ShadowRecord(envelope, rawData))],
                      index |-> updateIndex(sh.index, targetRunId, runMeta, t)],
              appended |-> targetRunId]

\* the buffered entries ShadowSink.flushBufferForRunId selects for runId
matchingEntries(buffer, runId) ==
  SelectSeq(buffer, LAMBDA entry : getTargetRunId(entry.envelope) = runId)

\* ShadowSink.flushBufferForRunId: failing is the set of positions (in the
\* matching entries) whose append fails
RECURSIVE FlushLoop(_,_,_,_,_)
FlushLoop(matching, i, failing, idx, runId) ==
  IF i > Len(matching) THEN <<>>
  ELSE LET entry == matching[i]
           rest == FlushLoop(matching, i + 1, failing, idx, runId)
       IN IF writeToFileThrows(idx, runId, entry.envelope, entry.rawData, i \in failing)
          THEN rest
          ELSE <<ShadowRecord(entry.envelope, entry.rawData)>> \o rest

flushBufferForRunId(sh, runId, failing, t) ==
  LET matching == matchingEntries(sh.rollingBuffer, runId)
      written == FlushLoop(matching, 1, failing, sh.index, runId)
      runMeta == [sh.activeRuns[runId] EXCEPT !.entryCount = @ + Len(written)]
  IN [sh EXCEPT !.activeRuns[runId] = runMeta,
                !.files[runId] = @ \o written,
                !.index = IF Len(matching) > 0
                          THEN updateIndex(sh.index, runId, runMeta, t) ELSE @]

\* ShadowSink.enable(runId, opts) at clock t; optRespect is
\* opts.respectRoutingBlocks: "unset", "true" or "false"
ShadowSinkEnable(sc, sh, runId, optRespect, failing, t) ==
  LET runMeta == [respectRoutingBlocks |->
                     IF optRespect = "unset" THEN sc.respectRoutingBlocks
                     ELSE optRespect = "true",
                  ttlMs |-> sc.ttlMs, entryCount |-> 0]
      sh1 == [sh EXCEPT !.index = initializeIndex(sh.index, runId, runMeta, t),
                        !.activeRuns = [r \in DOMAIN sh.activeRuns \cup {runId} |->
                                          IF r = runId THEN runMeta ELSE sh.activeRuns[r]]]
  IN flushBufferForRunId(sh1, runId, failing, t)

\* a disable that finalises the manifest but leaves the run in the active set
ShadowSinkDisable_staysActive(sh, runId, t) ==
  IF runId \notin DOMAIN sh.activeRuns THEN sh
  ELSE [sh EXCEPT !.index = updateIndex(sh.index, runId, sh.activeRuns[runId], t)]

\* a disable that also deletes the storage of the run
ShadowSinkDisable_removesStorage(sh, runId, t) ==
  IF runId \notin DOMAIN sh.activeRuns THEN sh
  ELSE [sh EXCEPT !.files[runId] = <<>>, !.index[runId] = NoIndex,
                  !.activeRuns = [r \in DOMAIN sh.activeRuns \ {runId} |-> sh.activeRuns[r]]]

\* ShadowSink.disable(runId) at clock t
ShadowSinkDisable(sh, runId, t) ==
  IF runId \notin DOMAIN sh.activeRuns THEN sh
  ELSE [sh EXCEPT !.index = updateIndex(sh.index, runId, sh.activeRuns[runId], t),
                  !.activeRuns = [r \in DOMAIN sh.activeRuns \ {runId} |-> sh.activeRuns[r]]]

\* a disable that reports a runId that is not active
ShadowSinkDisableThrows_whenNotActive(sh, runId) == runId \notin DOMAIN sh.activeRuns

\* does ShadowSink.disable(runId) throw: it returns at once for a runId that
\* is not active, and its final manifest update catches its own errors
ShadowSinkDisableThrows(sh, runId) == FALSE

\* ShadowSink.isEnabled(runId) and ShadowSink.listActive() (the run ids)
isEnabled(sh, runId) == runId \in DOMAIN sh.activeRuns
listActive(sh) == {[runId |-> r] : r \in DOMAIN sh.activeRuns}

\* an export that looks for the data file on disk without asking whether
\* the run is active
ShadowSinkExport_anyStoredRun(sh, runId) ==
  IF sh.files[runId] = <<>>
  THEN [outcome |-> "io-error", copy |-> <<>>]
  ELSE [outcome |-> "copied", copy |-> sh.files[runId]]

\* ShadowSink.export(runId, outPath): the outcome, and the records copied.
\* The data file exists once a record has been appended to it.
ShadowSinkExport(sh, runId) ==
  IF runId \notin DOMAIN sh.activeRuns
  THEN [outcome |-> "not-found", copy |-> <<>>]
  ELSE IF sh.files[runId] = <<>>
  THEN [outcome |-> "io-error", copy |-> <<>>]
  ELSE [outcome |-> "copied", copy |-> sh.files[runId]]

\* the expiry test of ShadowSink.cleanupExpired on a manifest (updatedAt is
\* written by toISOString and read back by Date.getTime, both in whole
\* milliseconds)
IsExpired(manifest, currentTime) == manifest.updatedAt + manifest.ttlMs < currentTime

\* fs.promises.rm(runDir, {recursive, force}): the storage of run r is gone
removeRun(sh, r) ==
  [sh EXCEPT !.files[r] = <<>>, !.index[r] = NoIndex]

\* the file operation of cleanupExpired that fails: reading or parsing the
\* manifest of a run, or deleting its directory
NoFault == [run |-> "", kind |-> "none"]
Faults == {NoFault} \cup [run : RunIds, kind : {"manifest", "delete"}]

\* the scan of ShadowSink.cleanupExpired over the run directories, in the
\* order readdir lists them, from position i with `count' runs deleted so
\* far.  The one try/catch encloses the whole loop: a failing operation
\* ends the scan.
RECURSIVE CleanupLoop(_,_,_,_,_,_)
CleanupLoop(sh, dirs, i, currentTime, fault, count) ==
  IF i > Len(dirs) THEN [sh |-> sh, count |-> count]
  ELSE IF sh.index[dirs[i]] = NoIndex
  THEN CleanupLoop(sh, dirs, i + 1, currentTime, fault, count)
  ELSE IF fault = [run |-> dirs[i], kind |-> "manifest"]
  THEN [sh |-> sh, count |-> count]
  ELSE IF ~IsExpired(sh.index[dirs[i]], currentTime)
  THEN CleanupLoop(sh, dirs, i + 1, currentTime, fault, count)
  ELSE IF fault = [run |-> dirs[i], kind |-> "delete"]
  THEN [sh |-> sh, count |-> count]
  ELSE CleanupLoop(removeRun(sh, dirs[i]), dirs, i + 1, currentTime, fault, count + 1)

\* ShadowSink.cleanupExpired(now) at clock t; nowArg is the argument, Undef
\* when it is omitted.  Result: the new recorder state and the count returned.
ShadowSinkCleanupExpired(sh, nowArg, t, dirs, fault) ==
  CleanupLoop(sh, dirs, 1, IF IsUndef(nowArg) THEN t ELSE nowArg.num, fault, 0)

(***************************************************************************)
(* Configuration                                                           *)
(***************************************************************************)
\* SanitizationConfig defaults of the LogSanitizer constructor;
\* partialMaskRatio in hundredths (100 is the ratio 1.0)
DefaultSanitization ==
  [enabled |-> FALSE, maskWith |-> "[REDACTED]", maxDepth |-> 5,
   partialMaskRatio |-> 100,
   detectEmails |-> TRUE, detectIPs |-> TRUE, detectPhoneNumbers |-> TRUE,
   detectCreditCards |-> TRUE,
   keysDenylist |-> {"authorization", "token", "secret", "api_key", "passwd", "password"},
   keysAllowlist |-> {}, fieldsHashInsteadOfMask |-> {},
   detectAPIKeys |-> TRUE, detectGCPKeys |-> TRUE]

\* ShadowConfig; ttlMs and maxAgeMs in clock units
DefaultShadow ==
  [enabled |-> TRUE, respectRoutingBlocks |-> TRUE, ttlMs |-> 1,
   maxEntries |-> 0, maxAgeMs |-> 0]

NoScoping == [status |-> "absent", filterIdentities |-> <<>>,
              filteredApplications |-> <<>>, between |-> <<>>]

DefaultConfig ==
  [logToConsole |-> TRUE, logToFile |-> FALSE, enableUnifiedLogger |-> FALSE,
   logLevel |-> "info", debugEnabled |-> FALSE, defaultSource |-> "application",
   customLogger |-> FALSE, consolePackagesShow |-> <<>>, consolePackagesHide |-> <<>>,
   packageName |-> "PKG", appName |-> "app", unifiedLevels |-> Undef, logFormat |-> "table",
   sanitization |-> DefaultSanitization, shadow |-> DefaultShadow,
   debugScoping |-> NoScoping]

(***************************************************************************)
(* The raw envelope LogsGateway.emit builds for the shadow capture.  seq   *)
(* numbers the calls (history only).                                       *)
(***************************************************************************)
rawEnvelope(c, seq, t, level, message, heap, meta, identity) ==
  [seq |-> seq, timestamp |-> t, package |-> c.packageName, level |-> ToUpper(level),
   message |-> message,
   source |-> Coalesce(Prop(heap, meta, "source"), Str(c.defaultSource)),
   heap |-> heap,
   data |-> OrUndef(meta),
   identity |-> identity,
   runId |-> OrUndef(Prop(heap, meta, "runId")),
   routing |-> OrUndef(Prop(heap, meta, "_routing"))]

(***************************************************************************)
(* LogsGateway: level threshold, routing directive, console package filter *)
(***************************************************************************)
levelPriority(level) ==
  CASE level = "verbose" -> 0
    [] level = "debug" -> 1
    [] level = "info" -> 2
    [] level = "warn" -> 3
    [] level = "error" -> 4

\* a level check that admits only the levels above the minimum
shouldLog_strictlyAbove(c, level) ==
  IF c.debugEnabled /\ (level = "verbose" \/ level = "debug") THEN TRUE
  ELSE levelPriority(level) > levelPriority(c.logLevel)

\* LogsGateway.shouldLog; c.debugEnabled: process.env.DEBUG names the package
shouldLog(c, level) ==
  IF c.debugEnabled /\ (level = "verbose" \/ level = "debug") THEN TRUE
  ELSE levelPriority(level) >= levelPriority(c.logLevel)

\* LogsGateway.shouldSend
shouldSend(heap, outputName, meta) ==
  LET routing == Prop(heap, meta, "_routing")
      allowedOutputs == Prop(heap, routing, "allowedOutputs")
  IN IF Includes(heap, Prop(heap, routing, "blockOutputs"), outputName) THEN FALSE
     ELSE IF Truthy(allowedOutputs) /\ ~Includes(heap, allowedOutputs, outputName) THEN FALSE
     ELSE IF Prop(heap, meta, "source") = Str("logs-gateway-internal")
             /\ outputName = "unified-logger" THEN FALSE
     ELSE TRUE

\* is string x an element of the list (Array.prototype.includes)
InList(list, x) == \E i \in 1..Len(list) : list[i] = x

\* LogsGateway.shouldShowPackageInConsole
shouldShowPackageInConsole(c) ==
  IF Len(c.consolePackagesShow) > 0 THEN InList(c.consolePackagesShow, c.packageName)
  ELSE IF Len(c.consolePackagesHide) > 0 THEN ~InList(c.consolePackagesHide, c.packageName)
  ELSE TRUE

\* UnifiedLoggerOutput.write: does the call reach the external logger (the
\* initialisation succeeding); a failure of the external logger is caught
UnifiedLoggerOutputWrite(c, heap, level, meta) ==
  LET routing == Prop(heap, meta, "_routing")
      allowedOutputs == Prop(heap, routing, "allowedOutputs")
  IN IF Truthy(c.unifiedLevels) /\ ~Includes(heap, c.unifiedLevels, level) THEN FALSE
     ELSE IF Includes(heap, Prop(heap, routing, "blockOutputs"), "unified-logger") THEN FALSE
     ELSE IF Truthy(allowedOutputs) /\ ~Includes(heap, allowedOutputs, "unified-logger")
          THEN FALSE
     ELSE TRUE

(***************************************************************************)
(* LogsGateway: the scope filter.  The identity and application name are   *)
(* strings, "" standing for undefined.                                     *)
(***************************************************************************)
\* LogsGateway.matchesIdentity
matchesIdentity(searchString, identityList, exactMatch) ==
  IF searchString = "" \/ Len(identityList) = 0 THEN FALSE
  ELSE \E i \in 1..Len(identityList) :
         IF exactMatch THEN searchString = identityList[i]
         ELSE StrIncludes(ToLower(searchString), ToLower(identityList[i]))

\* the per-field fallback of getSearchableLogText when the metadata cannot
\* be serialised as a whole
RECURSIVE FieldTexts(_,_,_)
FieldTexts(heap, fields, i) ==
  IF i > Len(fields) THEN << >>
  ELSE LET value == fields[i].v
           text == IF StringifyThrows(heap, value) THEN StringOf(heap, value, {})
                   ELSE JsonStringify(heap, value)
       IN <<fields[i].k \o ":" \o text>> \o FieldTexts(heap, fields, i + 1)

\* parts.join(' ')
RECURSIVE JoinSpace(_)
JoinSpace(parts) ==
  IF Len(parts) = 0 THEN ""
  ELSE IF Len(parts) = 1 THEN parts[1]
  ELSE parts[1] \o " " \o JoinSpace(Tail(parts))

\* LogsGateway.getSearchableLogText
getSearchableLogText(message, identity, heap, meta) ==
  LET metaParts == IF ~Truthy(meta) THEN << >>
                   ELSE IF ~StringifyThrows(heap, meta) THEN <<JsonStringify(heap, meta)>>
                   ELSE FieldTexts(heap, SpreadFields(heap, meta), 1)
  IN JoinSpace(Opt(message # "", message) \o Opt(identity # "", identity) \o metaParts)

\* the text a between-rule is matched against
ruleSearchText(rule, message, identity, heap, meta) ==
  IF rule.searchLog THEN getSearchableLogText(message, identity, heap, meta)
  ELSE identity

\* a match in which an empty list of identities matches every entry
ruleMatches_emptyMatchesAll(searchText, identities, exactMatch) ==
  IF Len(identities) > 0 THEN matchesIdentity(searchText, identities, exactMatch)
  ELSE TRUE

\* does searchText match a non-empty list of identities of a rule
ruleMatches(searchText, identities, exactMatch) ==
  IF Len(identities) > 0 THEN matchesIdentity(searchText, identities, exactMatch)
  ELSE FALSE

\* an update in which an entry matching both start and end closes the rule
ruleRanges_bothCloses(i, ranges, matchesStart, matchesEnd) ==
  IF matchesEnd THEN ranges \ {i}
  ELSE IF matchesStart THEN ranges \cup {i}
  ELSE ranges

\* an update in which a start match opens the rule whatever else matches
ruleRanges_startWins(i, ranges, matchesStart, matchesEnd) ==
  IF matchesStart THEN ranges \cup {i}
  ELSE IF matchesEnd THEN ranges \ {i}
  ELSE ranges

\* the active ranges after rule i met an entry matching its start and/or end
ruleRanges(i, ranges, matchesStart, matchesEnd) ==
  IF matchesStart /\ matchesEnd
  THEN (IF i \in ranges THEN ranges \ {i} ELSE ranges \cup {i})
  ELSE IF matchesStart THEN ranges \cup {i}
  ELSE IF matchesEnd THEN ranges \ {i}
  ELSE ranges

ruleStep(rule, i, ranges, searchText) ==
  ruleRanges(i, ranges,
             ruleMatches(searchText, rule.startIdentities, rule.exactMatch),
             ruleMatches(searchText, rule.endIdentities, rule.exactMatch))

\* the second loop of LogsGateway.updateBetweenRangeState, from rule i on
RECURSIVE BetweenLoop(_,_,_,_,_,_,_)
BetweenLoop(between, i, ranges, message, identity, heap, meta) ==
  IF i > Len(between) THEN ranges
  ELSE BetweenLoop(between, i + 1,
                   ruleStep(between[i], i, ranges,
                            ruleSearchText(between[i], message, identity, heap, meta)),
                   message, identity, heap, meta)

\* an update that opens the rules without start patterns after the rules
\* have met the entry
updateBetweenRangeState_opensLast(scoping, ranges, message, identity, heap, meta) ==
  IF Len(scoping.between) = 0 THEN ranges
  ELSE BetweenLoop(scoping.between, 1, ranges, message, identity, heap, meta)
         \cup {i \in 1..Len(scoping.between) : Len(scoping.between[i].startIdentities) = 0}

\* an update that leaves the rules without start patterns closed
updateBetweenRangeState_noOpening(scoping, ranges, message, identity, heap, meta) ==
  IF Len(scoping.between) = 0 THEN ranges
  ELSE BetweenLoop(scoping.between, 1, ranges, message, identity, heap, meta)

\* LogsGateway.updateBetweenRangeState, called with scoping enabled: the new
\* activeBetweenRanges (rule numbers count from 1)
updateBetweenRangeState(scoping, ranges, message, identity, heap, meta) ==
  LET between == scoping.between
      opened == ranges \cup {i \in 1..Len(between) : Len(between[i].startIdentities) = 0}
  IN IF Len(between) = 0 THEN ranges
     ELSE BetweenLoop(between, 1, opened, message, identity, heap, meta)

\* a scope filter that lets every entry through
shouldIncludeLog_includesAll(c, ranges, message, identity, appName, heap, meta) ==
  [include |-> TRUE, ranges |-> ranges]

\* a decision that consults the active exclude rules before the include ones
scopeDecision_excludeFirst(scoping, identity, appName, updated) ==
  IF Len(scoping.between) > 0 /\ (\E i \in updated : scoping.between[i].action = "exclude")
  THEN [include |-> FALSE, ranges |-> updated]
  ELSE IF Len(scoping.between) > 0 /\ (\E i \in updated : scoping.between[i].action = "include")
       THEN [include |-> TRUE, ranges |-> updated]
  ELSE [include |-> \/ identity # "" /\ InList(scoping.filterIdentities, identity)
                    \/ appName # "" /\ InList(scoping.filteredApplications, appName),
        ranges |-> updated]

\* the decision of LogsGateway.shouldIncludeLog once the between-rules have
\* been updated to the active ranges `updated'
scopeDecision(scoping, identity, appName, updated) ==
  LET hasIdentityFilter == Len(scoping.filterIdentities) > 0
      hasAppFilter == Len(scoping.filteredApplications) > 0
      matchesExistingFilter ==
        \/ hasIdentityFilter /\ identity # "" /\ InList(scoping.filterIdentities, identity)
        \/ hasAppFilter /\ appName # "" /\ InList(scoping.filteredApplications, appName)
      hasActiveIncludeRule == \E i \in updated : scoping.between[i].action = "include"
      hasActiveExcludeRule == \E i \in updated : scoping.between[i].action = "exclude"
  IN IF Len(scoping.between) > 0 /\ hasActiveIncludeRule
     THEN [include |-> TRUE, ranges |-> updated]
     ELSE IF Len(scoping.between) > 0 /\ hasActiveExcludeRule
          THEN [include |-> FALSE, ranges |-> updated]
     ELSE [include |-> matchesExistingFilter, ranges |-> updated]

\* a scope filter that applies its lists and rules whatever the status
shouldIncludeLog_ignoresStatus(c, ranges, message, identity, appName, heap, meta) ==
  IF /\ Len(c.debugScoping.filterIdentities) = 0
     /\ Len(c.debugScoping.filteredApplications) = 0
     /\ Len(c.debugScoping.between) = 0
  THEN [include |-> TRUE, ranges |-> ranges]
  ELSE scopeDecision(c.debugScoping, identity, appName,
                     updateBetweenRangeState(c.debugScoping, ranges, message,
                                             identity, heap, meta))

\* LogsGateway.shouldIncludeLog: the decision and the new activeBetweenRanges
shouldIncludeLog(c, ranges, message, identity, appName, heap, meta) ==
  IF c.debugScoping.status # "enabled" THEN [include |-> TRUE, ranges |-> ranges]
  ELSE IF /\ Len(c.debugScoping.filterIdentities) = 0
          /\ Len(c.debugScoping.filteredApplications) = 0
          /\ Len(c.debugScoping.between) = 0
       THEN [include |-> TRUE, ranges |-> ranges]
  ELSE scopeDecision(c.debugScoping, identity, appName,
                     updateBetweenRangeState(c.debugScoping, ranges, message,
                                             identity, heap, meta))

(***************************************************************************)
(* History                                                                 *)
(***************************************************************************)
NoRun == [phase |-> "never", enables |-> 0, w0 |-> 0, w1 |-> 0]

\* the run an input is tagged with: the _shadow.runId override when present,
\* otherwise the runId
TagOf(in) == IF in.ovr # "" THEN in.ovr ELSE in.run
\* does the routing directive of an input block the shadow capture
BlocksShadow(in) ==
  \E i \in 1..Len(in.block) : in.block[i] \in {"file", "shadow"}

\* the calls (by number) whose record is in the data file of run r
FileSeqs(r) == [i \in 1..Len(files[r]) |-> files[r][i].seq]

\* the runs whose data file differs between two recorder states
Grown(before, after) == {r \in RunIds : after.files[r] # before.files[r]}

(***************************************************************************)
(* The recorder used directly: ShadowSink.write / enable / disable         *)
(***************************************************************************)
\* one more step, while the behaviour is shorter than MaxSteps
Step ==
  /\ steps < MaxSteps
  /\ steps' = steps + 1

\* the recorder configurations explored: honouring routing blocks with no
\* buffer, a buffer of one entry, a buffer of MaxBuf entries without and with
\* an age limit of one clock unit; and ignoring routing blocks
ShadowConfigs ==
  {[DefaultShadow EXCEPT !.maxEntries = b[1], !.maxAgeMs = b[2]] :
     b \in {<<0, 0>>, <<1, 0>>, <<MaxBuf, 0>>, <<MaxBuf, 1>>}}
  \cup {[DefaultShadow EXCEPT !.respectRoutingBlocks = FALSE, !.maxEntries = MaxBuf]}

In(run, ovr, block, fail) ==
  [run |-> run, ovr |-> ovr, block |-> block, fail |-> fail,
   src |-> "", allow |-> <<>>, secret |-> "", cyc |-> FALSE]

\* the write calls explored: untagged, tagged, tagged through the override,
\* blocked for the shadow or the file destination, and with a failing append
ShadowInputs ==
  { In("", "", <<>>, FALSE), In("runA", "", <<>>, FALSE),
    In("runB", "runA", <<>>, FALSE), In("runA", "", <<"shadow">>, FALSE),
    In("runA", "", <<"file">>, FALSE), In("runA", "", <<>>, TRUE) }

MetaOf(in) == MkMeta(in.src, in.run, in.ovr, in.block, in.allow, in.secret, in.cyc)

SetShadow(sh) ==
  /\ activeRuns' = sh.activeRuns
  /\ rollingBuffer' = sh.rollingBuffer
  /\ files' = sh.files
  /\ index' = sh.index

InitShadowState ==
  /\ now = 0
  /\ activeBetweenRanges = {}
  /\ activeRuns = << >>
  /\ rollingBuffer = << >>
  /\ files = [r \in RunIds |-> << >>]
  /\ index = [r \in RunIds |-> NoIndex]
  /\ writes = << >>
  /\ runs = [r \in RunIds |-> NoRun]
  /\ steps = 0
  /\ last = [op |-> "init"]

InitShadow ==
  /\ cfg \in {[DefaultConfig EXCEPT !.shadow = s] : s \in ShadowConfigs}
  /\ InitShadowState

\* sink.write(envelope, rawData)
SinkWrite(in) ==
  /\ Step
  /\ LET heap == MetaOf(in)
         envelope == rawEnvelope(cfg, Len(writes) + 1, now, "info", "hello", heap, MetaRoot, "")
         res == ShadowSinkWrite(cfg.shadow, ShadowState, envelope, MetaRoot, now, in.fail)
     IN /\ SetShadow(res.sh)
        /\ writes' = Append(writes, [in |-> in, ts |-> now])
        /\ last' = [op |-> "write", in |-> in, appended |-> Grown(ShadowState, res.sh),
                    active |-> DOMAIN activeRuns]
  /\ UNCHANGED <<cfg, now, activeBetweenRanges, runs>>

\* sink.enable(runId, opts)
SinkEnable(runId, optRespect, failing) ==
  /\ Step
  /\ LET sh == ShadowSinkEnable(cfg.shadow, ShadowState, runId, optRespect, failing, now)
         before == Len(files[runId])
     IN /\ SetShadow(sh)
        /\ last' = [op |-> "enable", run |-> runId,
                    failed |-> failing \cap (1..Len(matchingEntries(rollingBuffer, runId))),
                    replayed |-> [i \in 1..(Len(sh.files[runId]) - before) |->
                                    sh.files[runId][before + i].seq]]
  /\ runs' = [runs EXCEPT ![runId] = [phase |-> "open", enables |-> @.enables + 1,
                                       w0 |-> Len(writes), w1 |-> 0]]
  /\ UNCHANGED <<cfg, now, activeBetweenRanges, writes>>

\* sink.disable(runId)
SinkDisable(runId) ==
  /\ Step
  /\ SetShadow(ShadowSinkDisable(ShadowState, runId, now))
  /\ runs' = [runs EXCEPT ![runId] =
                IF @.phase = "open" THEN [@ EXCEPT !.phase = "closed", !.w1 = Len(writes)]
                ELSE @]
  /\ last' = [op |-> "disable", run |-> runId, active |-> DOMAIN activeRuns,
              raised |-> ShadowSinkDisableThrows(ShadowState, runId)]
  /\ UNCHANGED <<cfg, now, activeBetweenRanges, writes>>

\* time passes: the clock advances by more than the age limit of the buffer
Tick ==
  /\ Step
  /\ now' = now + cfg.shadow.maxAgeMs + 1
  /\ UNCHANGED <<cfg, activeBetweenRanges, activeRuns, rollingBuffer, files, index,
                 writes, runs, last>>

NextShadow ==
  \/ \E in \in ShadowInputs : SinkWrite(in)
  \/ \E r \in RunIds, f \in {{}, {1}} : SinkEnable(r, "unset", f)
  \/ \E r \in RunIds : SinkDisable(r)
  \/ Tick

SpecShadow == InitShadow /\ [][NextShadow]_vars

(***************************************************************************)
(* Claims about the recorder (checked under SpecShadow)                    *)
(***************************************************************************)
\* the calls, by number, among the calls lo+1..hi that satisfy P
CallsIn(lo, hi, P(_)) == SelectSeq([i \in 1..(hi - lo) |-> lo + i], P)

\* write call i is accepted by the routing check and its append succeeds
Passes(i) ==
  /\ ~(cfg.shadow.respectRoutingBlocks /\ BlocksShadow(writes[i].in))
  /\ ~writes[i].in.fail

\* C7 as stated: a write appends the entry to the file of run R if and only
\* if the resolved runId of the entry is R and R is active at the call.
C7_AppendsIffResolvedActive ==
  last.op = "write" =>
    \A r \in RunIds :
      (r \in last.appended) <=> (TagOf(last.in) = r /\ r \in last.active)

\* C7 amended: a write appends the entry to the file of run R if and only if
\* the resolved runId of the entry (the _shadow.runId override when present,
\* otherwise the envelope runId) is R, R is active at the call, the entry is
\* not refused by the routing check (respectRoutingBlocks with a directive
\* that blocks 'file' or 'shadow') and the append does not fail; so an entry
\* with no runId or with an inactive resolved runId is appended nowhere.
C7_AppendsIffCaptured ==
  last.op = "write" =>
    \A r \in RunIds :
      (r \in last.appended) <=>
        /\ TagOf(last.in) = r
        /\ r \in last.active
        /\ ~(cfg.shadow.respectRoutingBlocks /\ BlocksShadow(last.in))
        /\ ~last.in.fail

\* a write whose envelope runId names an active run is redirected by its
\* override to a run that is not active, and is appended nowhere
C7_Witness ==
  /\ last.op = "write"
  /\ last.in.ovr # "" /\ last.in.ovr \notin last.active
  /\ last.in.run \in last.active
  /\ last.appended = {}

\* C8 as stated: with respectRoutingBlocks set, no record of a shadow file
\* comes from an entry whose routing directive blocks 'file' or 'shadow',
\* whether appended by write or by the replay of enable.
C8_BlockedNeverAppended ==
  cfg.shadow.respectRoutingBlocks =>
    \A r \in RunIds : \A i \in 1..Len(files[r]) :
      ~BlocksShadow(writes[files[r][i].seq].in)

\* the direct half of C8, which the code keeps: with respectRoutingBlocks
\* set, write itself never appends a blocking entry
C8_WriteSkipsBlocked ==
  (last.op = "write" /\ cfg.shadow.respectRoutingBlocks /\ BlocksShadow(last.in))
    => last.appended = {}

\* enable has replayed a blocking entry although respectRoutingBlocks is set
C8_Witness ==
  /\ cfg.shadow.respectRoutingBlocks
  /\ last.op = "enable"
  /\ \E i \in 1..Len(last.replayed) : BlocksShadow(writes[last.replayed[i]].in)

\* C9 as stated: after enable(R), k writes tagged R and disable(R), the file
\* of R holds exactly the k records of those writes, in arrival order.
C9_SessionHoldsAllTagged ==
  \A r \in RunIds :
    runs[r].phase = "closed" =>
      FileSeqs(r) = CallsIn(runs[r].w0, runs[r].w1, LAMBDA i : TagOf(writes[i].in) = r)

\* C9 amended: if R was never enabled before and no entry resolving to R was
\* written before enable(R), then after enable(R), any writes, and disable(R),
\* the file of R holds exactly one record per write of the session whose
\* resolved runId is R, that passes the routing check and whose append does
\* not fail, in arrival order; and it stays so until R is enabled again.
C9_SessionHoldsCaptured ==
  \A r \in RunIds :
    (/\ runs[r].phase = "closed"
     /\ runs[r].enables = 1
     /\ \A i \in 1..runs[r].w0 : TagOf(writes[i].in) # r)
    => FileSeqs(r) = CallsIn(runs[r].w0, runs[r].w1,
                             LAMBDA i : TagOf(writes[i].in) = r /\ Passes(i))

\* a closed first session of a run with two captured records and a later
\* write tagged with the run that is not recorded
C9_Witness ==
  \E r \in RunIds :
    /\ runs[r].phase = "closed" /\ runs[r].enables = 1
    /\ \A i \in 1..runs[r].w0 : TagOf(writes[i].in) # r
    /\ Len(files[r]) = 2
    /\ files[r][1].seq < files[r][2].seq

\* the entries the rolling buffer holds after the writes made so far: the
\* maxEntries most recent ones that are no older than maxAgeMs at the last
\* write
Buffered(i) ==
  /\ i > Len(writes) - cfg.shadow.maxEntries
  /\ cfg.shadow.maxAgeMs > 0 => writes[i].ts >= writes[Len(writes)].ts - cfg.shadow.maxAgeMs

\* C10 as stated: when N entries tagged R were written before enable(R) and
\* the buffer capacity is M < N, enable(R) replays exactly the M most recent
\* of them, in arrival order.
C10_ReplaysLastM ==
  (last.op = "enable" /\ last.failed = {} /\ runs[last.run].enables = 1) =>
    LET tagged == CallsIn(0, Len(writes), LAMBDA i : TagOf(writes[i].in) = last.run)
        N == Len(tagged)
        M == cfg.shadow.maxEntries
    IN M < N => last.replayed = SubSeq(tagged, N - M + 1, N)

\* C10 amended: enable(R) replays, in arrival order, exactly the entries whose
\* resolved runId is R among the M most recent writes of any run that, when
\* the buffer has an age limit, were no older than maxAgeMs at the time of
\* the most recent write (provided no append of the replay fails); with N
\* writes tagged R and M < N this is at most M records, and exactly M only if
\* the M most recent writes all resolve to R and none has aged out.
C10_ReplaysBuffered ==
  (last.op = "enable" /\ last.failed = {}) =>
    last.replayed = CallsIn(0, Len(writes),
                            LAMBDA i : TagOf(writes[i].in) = last.run /\ Buffered(i))

\* enable replays one entry of a run although two were written for it, the
\* capacity being one
C10_Witness ==
  /\ last.op = "enable" /\ last.failed = {}
  /\ cfg.shadow.maxEntries = 1
  /\ Len(writes) = 2
  /\ \A i \in 1..2 : TagOf(writes[i].in) = last.run
  /\ last.replayed = <<2>>

(***************************************************************************)
(* The recorder and its storage: write / enable / disable / export /       *)
(* cleanupExpired                                                          *)
(***************************************************************************)
\* the recorder configurations explored: without a buffer, and with a buffer
\* of one entry and a longer time to live
StoreConfigs ==
  {DefaultShadow, [DefaultShadow EXCEPT !.maxEntries = 1, !.ttlMs = 2]}

\* the write calls explored: tagged with either run, and tagged runA through
\* the override
StoreInputs ==
  {In("runA", "", <<>>, FALSE), In("runB", "", <<>>, FALSE), In("runB", "runA", <<>>, FALSE)}

\* the orders in which readdir may list the run directories
ScanOrders == {<<"runA", "runB">>, <<"runB", "runA">>}

\* the runs with storage on disk (a directory holding a manifest)
Stored(idx) == {r \in RunIds : idx[r] # NoIndex}

InitStore ==
  /\ cfg \in {[DefaultConfig EXCEPT !.shadow = s] : s \in StoreConfigs}
  /\ InitShadowState

\* the calls of cleanupExpired explored: without an argument (ahead = 0) or
\* with a time `ahead' clock units after the present; every fault, met
\* first or last in the scan
CleanupCalls ==
  {c \in [ahead : {0, 1, 2}, dirs : ScanOrders, fault : Faults] :
     c.fault = NoFault => c.dirs = <<"runA", "runB">>}

\* await sink.cleanupExpired(nowArg), readdir listing the runs in order dirs
SinkCleanupExpired(ahead, dirs, fault) ==
  /\ Step
  /\ LET nowArg == IF ahead = 0 THEN Undef ELSE Num(now + ahead)
         res == ShadowSinkCleanupExpired(ShadowState, nowArg, now, dirs, fault)
     IN /\ SetShadow(res.sh)
        /\ last' = [op |-> "cleanup",
                    at |-> now + ahead,
                    fault |-> fault, stored |-> index,
                    touched |-> {r \in RunIds : \/ res.sh.index[r] # index[r]
                                                \/ res.sh.files[r] # files[r]},
                    active |-> DOMAIN activeRuns,
                    count |-> res.count]
  /\ UNCHANGED <<cfg, now, activeBetweenRanges, writes, runs>>

\* await sink.export(runId, outPath)
SinkExport(runId) ==
  /\ Step
  /\ LET res == ShadowSinkExport(ShadowState, runId)
     IN last' = [op |-> "export", run |-> runId, active |-> DOMAIN activeRuns,
                 outcome |-> res.outcome, copy |-> res.copy,
                 state |-> ShadowState]
  /\ UNCHANGED <<cfg, now, activeBetweenRanges, activeRuns, rollingBuffer, files, index,
                 writes, runs>>

NextStore ==
  \/ \E in \in StoreInputs : SinkWrite(in)
  \/ \E r \in RunIds : SinkEnable(r, "unset", {})
  \/ \E r \in RunIds : SinkDisable(r)
  \/ Tick
  \/ \E c \in CleanupCalls : SinkCleanupExpired(c.ahead, c.dirs, c.fault)
  \/ \E r \in RunIds : SinkExport(r)

SpecStore == InitStore /\ [][NextStore]_vars

(***************************************************************************)
(* Claims about the recorder's storage (checked under SpecStore)           *)
(***************************************************************************)
\* the stored runs whose manifest, as it was before the last cleanup call,
\* satisfies updatedAt + ttlMs < now
ExpiredBefore ==
  {r \in Stored(last.stored) :
     last.stored[r].updatedAt + last.stored[r].ttlMs < last.at}

\* C11 as stated: cleanupExpired(now) deletes the storage of exactly the
\* stored runs whose manifest satisfies lastUpdated + ttl < now, leaves the
\* storage of every other run untouched, and returns the number of runs it
\* deleted -- on every call, whatever happens to the file operations of
\* the scan.
C11_DeletesExactlyExpired ==
  last.op = "cleanup" =>
    /\ last.touched = ExpiredBefore
    /\ \A r \in ExpiredBefore : index[r] = NoIndex /\ files[r] = <<>>
    /\ last.count = Cardinality(ExpiredBefore)

\* C11 for a scan in which no file operation fails: exactly the expired
\* runs are deleted, with the strict comparison, and they are counted.
C11_DeletesExpiredUnlessFault ==
  (last.op = "cleanup" /\ last.fault = NoFault) =>
    /\ last.touched = ExpiredBefore
    /\ \A r \in ExpiredBefore : index[r] = NoIndex /\ files[r] = <<>>
    /\ last.count = Cardinality(ExpiredBefore)

\* C11 whatever fails: the count returned is the number of runs deleted, and
\* only expired runs are deleted.
C11_CountsDeleted ==
  last.op = "cleanup" =>
    /\ last.touched \subseteq ExpiredBefore
    /\ \A r \in last.touched : index[r] = NoIndex /\ files[r] = <<>>
    /\ last.count = Cardinality(last.touched)

\* a cleanup call in which both stored runs are expired, the manifest of
\* the run scanned first cannot be read, and the other run, expired and
\* intact, keeps its storage
C11_Witness ==
  /\ last.op = "cleanup"
  /\ last.fault.kind = "manifest"
  /\ ExpiredBefore = RunIds
  /\ last.touched = {}
  /\ last.count = 0
  /\ \E r \in RunIds \ {last.fault.run} : files[r] # <<>>

\* C12: after disable(R), R is not in the active set (isEnabled(R) is false,
\* listActive omits R); the data file of R keeps its records and the
\* manifest stays on disk through the disable and through every later call
\* that is neither cleanupExpired nor enable(R); and while R stays
\* disabled no write appends to R's file.
C12_DisabledRunKeepsStorage ==
  [][\A r \in RunIds :
       LET disabling == last'.op = "disable" /\ last'.run = r /\ steps' # steps
           enabling == last'.op = "enable" /\ last'.run = r /\ steps' # steps
           cleaning == last'.op = "cleanup" /\ steps' # steps
       IN /\ disabling =>
               /\ ~isEnabled([activeRuns |-> activeRuns'], r)
               /\ [runId |-> r] \notin listActive([activeRuns |-> activeRuns'])
               /\ files'[r] = files[r]
               /\ (index'[r] = NoIndex) <=> (index[r] = NoIndex)
          /\ (r \notin DOMAIN activeRuns /\ ~enabling /\ ~cleaning) =>
               /\ r \notin DOMAIN activeRuns'
               /\ files'[r] = files[r]
               /\ index'[r] = index[r]]_vars

\* a write tagged runA after runA was disabled: nothing is appended, and the
\* file keeps the record captured while the run was active
C12_Witness ==
  /\ last.op = "write"
  /\ TagOf(last.in) = "runA"
  /\ runs["runA"].phase = "closed"
  /\ "runA" \notin DOMAIN activeRuns
  /\ last.appended = {}
  /\ files["runA"] # <<>>
  /\ index["runA"] # NoIndex

\* C13: export(runId, dest) on a runId that is not in the active set fails
\* with the not-found condition, copies nothing, and leaves the active set,
\* the buffer, the data files and the manifests as they were.
C13_ExportUnknownNotFound ==
  (last.op = "export" /\ last.run \notin last.active) =>
    /\ last.outcome = "not-found"
    /\ last.copy = <<>>
    /\ ShadowState = last.state

\* an export of a run that was enabled, captured a record and was disabled:
\* its file is on disk, yet the export fails with not-found
C13_Witness ==
  /\ last.op = "export"
  /\ last.run \notin last.active
  /\ last.outcome = "not-found"
  /\ files[last.run] # <<>>

\* C14 as stated: disable(runId) on a runId that is not in the active set
\* raises a not-found error to the caller.
C14_DisableUnknownRaises ==
  (last.op = "disable" /\ last.run \notin last.active) => last.raised

\* C14 as the code has it: disable(runId) on a runId that is not in the
\* active set returns normally and changes nothing: the active set, the
\* data files and the manifests are as before the call.
C14_DisableUnknownIsNoOp ==
  [][(last'.op = "disable" /\ steps' # steps /\ last'.run \notin DOMAIN activeRuns) =>
       /\ ~last'.raised
       /\ activeRuns' = activeRuns
       /\ rollingBuffer' = rollingBuffer
       /\ files' = files
       /\ index' = index]_vars

\* a disable of a run that is not active, while the other run is: no error
C14_Witness ==
  /\ last.op = "disable"
  /\ last.run \notin last.active
  /\ last.active # {}
  /\ ~last.raised

(***************************************************************************)
(* The logger: LogsGateway.emit behind createLogger, whose console, file   *)
(* and unified-logger sinks are installed                                  *)
(***************************************************************************)
\* more clock checks than one sanitize call of the model makes: the time
\* budget of a call with this many unspent checks never expires
MaxChecks == 40

\* the metadata the destinations receive (LogsGateway.emit, `enriched')
enrichedMeta(c, heap, sanitizedMeta, identity, result) ==
  LET spread == SpreadFields(heap, sanitizedMeta)
      sourced == SetField(spread, "source",
                          Coalesce(Prop(heap, sanitizedMeta, "source"), Str(c.defaultSource)))
      identified == IF identity # "" THEN SetField(sourced, "identity", Str(identity))
                    ELSE sourced
  IN Obj(IF result.redactionCount > 0
         THEN SetField(identified, "_sanitization",
                       SanitizationMeta(result.redactionCount, result.truncated))
         ELSE identified)

\* does the console sink of createLogger throw: console.log fails, or the
\* json format meets metadata JSON.stringify cannot serialise
consoleSinkThrows(c, heap, enriched, fail) ==
  \/ fail = "console"
  \/ c.logFormat = "json" /\ StringifyThrows(heap, enriched)

\* a shadow capture placed after the level threshold instead of before it
shadowCapture_afterLevelCheck(c, sh, envelope, meta, t, fail) ==
  IF c.shadow.enabled /\ shouldLog(c, ToLower(envelope.level))
  THEN ShadowSinkWrite(c.shadow, sh, envelope, meta, t, fail = "shadow").sh
  ELSE sh

\* the shadow capture step of LogsGateway.emit: the recorder exists only when
\* the configuration enables it
shadowCapture(c, sh, envelope, meta, t, fail) ==
  IF c.shadow.enabled
  THEN ShadowSinkWrite(c.shadow, sh, envelope, meta, t, fail = "shadow").sh
  ELSE sh

\* the tail of LogsGateway.emit without a custom logger: the console, file
\* and unified-logger sinks, each behind its routing check.  Result: the
\* writers invoked, whether the external logger behind the unified-logger
\* writer was called, what the writers were given, and whether an error
\* reached the caller (only the console sink is called unprotected).
emitToSinks(c, heap, in, message, enriched) ==
  LET toConsole == /\ c.logToConsole
                   /\ shouldSend(heap, "console", enriched)
                   /\ shouldShowPackageInConsole(c)
      thrown == toConsole /\ consoleSinkThrows(c, heap, enriched, in.fail)
      toFile == ~thrown /\ c.logToFile /\ shouldSend(heap, "file", enriched)
      toUnified == /\ ~thrown
                   /\ c.enableUnifiedLogger
                   /\ shouldSend(heap, "unified-logger", enriched)
  IN [delivered |-> {d \in {"console", "file", "unified-logger"} :
                       \/ d = "console" /\ toConsole
                       \/ d = "file" /\ toFile
                       \/ d = "unified-logger" /\ toUnified},
      forwarded |-> toUnified /\ UnifiedLoggerOutputWrite(c, heap, in.level, enriched),
      out |-> [message |-> message, data |-> enriched],
      raised |-> thrown]

\* LogsGateway.emit after the level check, given the result of the sanitizer:
\* the custom logger, called unprotected, or the sinks
emitSanitized(c, heap, in, identity, result) ==
  IF c.customLogger
  THEN [delivered |-> {"custom"}, forwarded |-> FALSE,
        out |-> [message |-> result.message, data |-> result.data],
        raised |-> in.fail = "custom"]
  ELSE emitToSinks(c, heap, in, result.message,
                   enrichedMeta(c, heap, result.data, identity, result))

\* the identity of a call: meta.identity, else the identity of the call site
callIdentity(heap, in) ==
  StrOf(Coalesce(Prop(heap, MetaRoot, "identity"),
                 IF in.identity = "" THEN Undef ELSE Str(in.identity)))

\* the result of a call that delivered nothing, leaving the between-ranges
\* at `ranges' and the recorder at sh
nothingEmitted(ranges, sh) ==
  [ranges |-> ranges, sh |-> sh, included |-> FALSE, levelOk |-> FALSE,
   sanitized |-> FALSE, delivered |-> {}, forwarded |-> FALSE,
   out |-> Undef, raised |-> FALSE]

\* LogsGateway.emit from the level check on; captured is the result so far
emitLevelled(c, heap, in, identity, captured) ==
  IF ~shouldLog(c, in.level) THEN captured
  ELSE [levelOk |-> TRUE, sanitized |-> c.sanitization.enabled]
       @@ emitSanitized(c, heap, in, identity,
                        sanitize([expire |-> in.expire] @@ c.sanitization,
                                 heap, in.message, MetaRoot))
       @@ captured

\* LogsGateway.emit from the scope decision on: the raw envelope, the shadow
\* capture, and the rest
emitScoped(c, sh, in, seq, t, heap, identity, scope) ==
  IF ~scope.include THEN nothingEmitted(scope.ranges, sh)
  ELSE emitLevelled(c, heap, in, identity,
         [nothingEmitted(scope.ranges,
                         shadowCapture(c, sh,
                                       rawEnvelope(c, seq, t, in.level, in.message,
                                                   heap, MetaRoot, identity),
                                       MetaRoot, t, in.fail))
            EXCEPT !.included = TRUE])

emitIdentified(c, ranges, sh, in, seq, t, heap, identity) ==
  emitScoped(c, sh, in, seq, t, heap, identity,
             shouldIncludeLog(c, ranges, in.message, identity, c.appName, heap, MetaRoot))

\* LogsGateway.emit(level, message, meta) at clock t, as call number seq.
\* in.fail names the writer that fails during the call ("none" for no
\* failure), in.expire the clock checks of the sanitizer that find the time
\* budget unspent, in.identity the identity of the call site.
\* Result: the new activeBetweenRanges and recorder state, and what the call
\* did: included (passed the scope filter), levelOk, sanitized (the
\* sanitizer ran), and the result of emitSanitized.
EmitCall(c, ranges, sh, in, seq, t) ==
  emitIdentified(c, ranges, sh, in, seq, t, MetaOf(in), callIdentity(MetaOf(in), in))

(***************************************************************************)
(* The logger's configurations and calls                                   *)
(***************************************************************************)
\* every destination on, and a recorder with a buffer of one entry
AllOutputs ==
  [DefaultConfig EXCEPT !.logToFile = TRUE, !.enableUnifiedLogger = TRUE,
                        !.shadow = [DefaultShadow EXCEPT !.maxEntries = 1]]

Sanitizing == [DefaultSanitization EXCEPT !.enabled = TRUE]

\* scoping by a filter list, and by a between-rule that includes the entries
\* from one identity to another
ListScoping ==
  [status |-> "enabled", filterIdentities |-> <<"src/a.ts">>,
   filteredApplications |-> <<>>, between |-> <<>>]
BetweenScoping ==
  [status |-> "enabled", filterIdentities |-> <<>>, filteredApplications |-> <<>>,
   between |-> <<[action |-> "include", startIdentities |-> <<"src/b.ts">>,
                  endIdentities |-> <<"src/a.ts">>, exactMatch |-> TRUE,
                  searchLog |-> FALSE]>>]

LoggerConfigs ==
  { AllOutputs,
    [AllOutputs EXCEPT !.sanitization = Sanitizing],
    [AllOutputs EXCEPT !.customLogger = TRUE],
    [AllOutputs EXCEPT !.debugEnabled = TRUE],
    [AllOutputs EXCEPT !.logFormat = "json"],
    [AllOutputs EXCEPT !.sanitization = Sanitizing, !.debugScoping = ListScoping],
    [AllOutputs EXCEPT !.debugScoping = BetweenScoping],
    [AllOutputs EXCEPT !.shadow = [DefaultShadow EXCEPT !.enabled = FALSE]] }

\* an emission call: info("hello", {}) from src/a.ts, nothing failing
Call ==
  [level |-> "info", message |-> "hello", identity |-> "src/a.ts", expire |-> MaxChecks,
   fail |-> "none", src |-> "", run |-> "", ovr |-> "", block |-> <<>>, allow |-> <<>>,
   secret |-> "", cyc |-> FALSE]

Outputs == <<"console", "file", "unified-logger">>

\* the emission calls explored
EmitInputs ==
  { Call,
    [Call EXCEPT !.level = "debug"],
    [Call EXCEPT !.level = "debug", !.run = "runA"],
    [Call EXCEPT !.level = "debug", !.run = "runA", !.block = <<"shadow">>],
    [Call EXCEPT !.run = "runA", !.secret = "hunter"],
    [Call EXCEPT !.run = "runA", !.identity = "src/b.ts"],
    [Call EXCEPT !.run = "runA", !.fail = "shadow"],
    [Call EXCEPT !.block = Outputs, !.allow = Outputs],
    [Call EXCEPT !.block = Outputs, !.cyc = TRUE],
    [Call EXCEPT !.block = Outputs, !.expire = 1],
    [Call EXCEPT !.src = "logs-gateway-internal", !.allow = <<"unified-logger">>],
    [Call EXCEPT !.cyc = TRUE],
    [Call EXCEPT !.fail = "console"],
    [Call EXCEPT !.fail = "file"],
    [Call EXCEPT !.fail = "unified-logger"],
    [Call EXCEPT !.fail = "custom"] }

\* the run the logger's shadow controller is asked to capture
LoggerRuns == {"runA"}

Init ==
  /\ cfg \in LoggerConfigs
  /\ InitShadowState

\* the state after an emission call with result r
Emitted(in, r) ==
  /\ SetShadow(r.sh)
  /\ activeBetweenRanges' = r.ranges
  /\ last' = [op |-> "emit", in |-> in, active |-> DOMAIN activeRuns,
              before |-> activeBetweenRanges,
              included |-> r.included, levelOk |-> r.levelOk,
              buffered |-> r.sh.rollingBuffer # rollingBuffer,
              appended |-> Grown(ShadowState, r.sh),
              sanitized |-> r.sanitized, delivered |-> r.delivered,
              forwarded |-> r.forwarded, out |-> r.out, raised |-> r.raised]

\* logger.verbose / debug / info / warn / error (message, meta)
Emit(in) ==
  /\ Step
  /\ Emitted(in, EmitCall(cfg, activeBetweenRanges, ShadowState, in, steps + 1, now))
  /\ UNCHANGED <<cfg, now, writes, runs>>

\* logger.shadow.isEnabled(runId): the recorder's answer, or the constant
\* answer of the no-op controller
loggerShadowIsEnabled(c, sh, runId) ==
  IF c.shadow.enabled THEN isEnabled(sh, runId) ELSE FALSE

\* logger.shadow.enable(runId): the recorder, or the no-op controller of a
\* logger constructed with shadow capture off
LoggerShadowEnable(runId) ==
  /\ Step
  /\ IF cfg.shadow.enabled
     THEN SetShadow(ShadowSinkEnable(cfg.shadow, ShadowState, runId, "unset", {}, now))
     ELSE UNCHANGED <<activeRuns, rollingBuffer, files, index>>
  /\ last' = [op |-> "enable", run |-> runId]
  /\ runs' = [runs EXCEPT ![runId].phase = "open"]
  /\ UNCHANGED <<cfg, now, activeBetweenRanges, writes>>

\* logger.shadow.disable(runId)
LoggerShadowDisable(runId) ==
  /\ Step
  /\ IF cfg.shadow.enabled
     THEN SetShadow(ShadowSinkDisable(ShadowState, runId, now))
     ELSE UNCHANGED <<activeRuns, rollingBuffer, files, index>>
  /\ last' = [op |-> "disable", run |-> runId]
  /\ runs' = [runs EXCEPT ![runId].phase = IF @ = "open" THEN "closed" ELSE @]
  /\ UNCHANGED <<cfg, now, activeBetweenRanges, writes>>

Next ==
  \/ \E in \in EmitInputs : Emit(in)
  \/ \E r \in LoggerRuns : LoggerShadowEnable(r)
  \/ \E r \in LoggerRuns : LoggerShadowDisable(r)

Spec == Init /\ [][Next]_vars

(***************************************************************************)
(* Claims about the emission path (checked under Spec)                     *)
(***************************************************************************)
\* the destinations the routing directive of a call blocks
Blocked(in) == {in.block[i] : i \in 1..Len(in.block)}

\* was destination X reached by the last call: for console and file the sink
\* was invoked; for the unified-logger the external logger itself was called
Reached(X) ==
  IF X = "unified-logger" THEN last.forwarded ELSE X \in last.delivered

\* C1 as stated: for every emission call, in every configuration (also with
\* sanitization enabled, failing or cut short), a destination the routing
\* directive of the entry blocks is not reached, even when allowedOutputs
\* lists it too.
C1_BlockedNeverReached ==
  last.op = "emit" =>
    \A X \in Blocked(last.in) \cap {"console", "file", "unified-logger"} : ~Reached(X)

\* what the code keeps of C1: when the sanitizer does not run, a blocked
\* destination is not reached
C1_BlockedNotReachedUnsanitized ==
  (last.op = "emit" /\ ~last.sanitized) =>
    \A X \in Blocked(last.in) \cap {"console", "file", "unified-logger"} : ~Reached(X)

\* an entry blocking console, file and unified-logger reaches all three,
\* the sanitizer having dropped the routing directive
C1_Witness ==
  /\ last.op = "emit" /\ last.sanitized
  /\ Blocked(last.in) = {"console", "file", "unified-logger"}
  /\ last.delivered = {"console", "file", "unified-logger"}
  /\ last.forwarded

\* C2 as stated: no entry emitted with source 'logs-gateway-internal' reaches
\* the unified-logger, whatever its routing directive and whether or not
\* sanitization is enabled.
C2_InternalNeverForwarded ==
  (last.op = "emit" /\ last.in.src = "logs-gateway-internal") => ~last.forwarded

\* what the code keeps of C2: without sanitization an internal entry is not
\* passed to the unified-logger writer
C2_InternalNotForwardedUnsanitized ==
  (last.op = "emit" /\ last.in.src = "logs-gateway-internal" /\ ~last.sanitized)
    => "unified-logger" \notin last.delivered

\* an internal entry has reached the external logger
C2_Witness ==
  /\ last.op = "emit"
  /\ last.in.src = "logs-gateway-internal"
  /\ "unified-logger" \in last.delivered
  /\ last.forwarded

\* the filter lists alone exclude the call: scoping is enabled with a filter
\* list and no between-rule, and neither the identity nor the application
\* name of the call is listed
ExcludedByLists(in) ==
  LET scoping == cfg.debugScoping
  IN /\ scoping.status = "enabled"
     /\ Len(scoping.between) = 0
     /\ Len(scoping.filterIdentities) + Len(scoping.filteredApplications) > 0
     /\ ~InList(scoping.filterIdentities, in.identity)
     /\ ~InList(scoping.filteredApplications, cfg.appName)

\* C3: an entry the scope filter excludes gets no further processing: it is
\* not inserted into the shadow rolling buffer, not appended to a shadow run
\* file, not sanitized, and not delivered to console, file, unified-logger or
\* a custom logger.
C3_ExcludedUntouched ==
  (last.op = "emit" /\ (~last.included \/ ExcludedByLists(last.in))) =>
    /\ ~last.buffered
    /\ last.appended = {}
    /\ ~last.sanitized
    /\ last.delivered = {}
    /\ ~last.forwarded
    /\ ~last.raised

\* an excluded entry tagged with an active run, under a configuration that
\* buffers and sanitizes
C3_Witness ==
  /\ last.op = "emit"
  /\ ~last.included
  /\ last.in.run \in last.active
  /\ cfg.sanitization.enabled
  /\ cfg.shadow.maxEntries > 0
  /\ rollingBuffer # << >>

\* the level of a call is below the configured minimum
BelowMinimum(in) == levelPriority(in.level) < levelPriority(cfg.logLevel)

\* the DEBUG override admits the level of a call
DebugOverride(in) == cfg.debugEnabled /\ in.level \in {"verbose", "debug"}

\* C4 as stated: an entry that passes the scope filter, whose level is below
\* the minimum and whose runId is active, is appended to the file of that
\* run, and no normal destination receives it.
C4_BelowMinimumAppended ==
  (/\ last.op = "emit" /\ last.included
   /\ BelowMinimum(last.in)
   /\ last.in.run \in last.active)
  => /\ last.in.run \in last.appended
     /\ last.delivered = {}

\* C4 amended: an entry that passes the scope filter is handed to the shadow
\* recorder before the level check: if its level is below the minimum, its
\* resolved runId is active, it is not refused by the routing check
\* (respectRoutingBlocks with 'file' or 'shadow' blocked) and the append does
\* not fail, it is appended to the file of that run, and to no other; and
\* unless the DEBUG override admits its level, it is neither sanitized nor
\* given to any normal destination.
C4_BelowMinimumCaptured ==
  (/\ last.op = "emit" /\ last.included
   /\ BelowMinimum(last.in)
   /\ TagOf(last.in) \in last.active
   /\ ~(cfg.shadow.respectRoutingBlocks /\ BlocksShadow(last.in))
   /\ last.in.fail # "shadow" /\ ~last.in.cyc)
  => /\ last.appended = {TagOf(last.in)}
     /\ last.buffered = (cfg.shadow.maxEntries > 0)
     /\ ~DebugOverride(last.in) =>
          (~last.levelOk /\ ~last.sanitized /\ last.delivered = {} /\ ~last.raised)

\* an entry below the minimum level is in the file of its active run and
\* nowhere else
C4_Witness ==
  /\ last.op = "emit"
  /\ BelowMinimum(last.in) /\ ~last.levelOk
  /\ last.in.run \in last.active
  /\ last.appended = {last.in.run}
  /\ last.delivered = {}

\* C5: every record appended to a shadow run file carries the original
\* message and metadata of the call, unmodified by the sanitizer, also when
\* sanitization is enabled and changes what the other destinations receive:
\* the record of the last call is the caller's message and metadata object,
\* and no record of any file holds the mask token or a sanitization marker.
C5_ShadowRecordIsRaw ==
  /\ last.op = "emit" =>
       \A r \in last.appended :
         LET rec == files[r][Len(files[r])]
         IN /\ rec.message = last.in.message
            /\ rec.data = MetaRoot
            /\ rec.heap = MetaOf(last.in)
  /\ \A r \in RunIds : \A i \in 1..Len(files[r]) :
       LET rec == files[r][i]
       IN /\ rec.message # cfg.sanitization.maskWith
          /\ Prop(rec.heap, rec.data, "password") # Str(cfg.sanitization.maskWith)
          /\ IsUndef(Prop(rec.heap, rec.data, "_sanitization"))

\* a call whose password the destinations received masked and whose shadow
\* record holds it in clear
C5_Witness ==
  /\ last.op = "emit" /\ last.sanitized
  /\ last.delivered # {}
  /\ Prop(<<>>, last.out.data, "password") = Str(cfg.sanitization.maskWith)
  /\ \E r \in last.appended :
       Prop(files[r][Len(files[r])].heap, files[r][Len(files[r])].data, "password")
         = Str(last.in.secret)

\* C6 as stated: no emission call raises an error to its caller, whichever
\* fault occurs during it: a sanitizer cycle, a failing console, file,
\* unified-logger or custom-logger writer, or a failing shadow write.
C6_NeverRaises ==
  last.op = "emit" => ~last.raised

\* what the code keeps of C6: a failing file, unified-logger or shadow write
\* and a cycle met by the sanitizer do not reach the caller
C6_CaughtFaults ==
  (/\ last.op = "emit"
   /\ \/ last.in.fail \in {"file", "unified-logger", "shadow"} /\ ~last.in.cyc
      \/ last.in.fail = "none" /\ last.in.cyc /\ last.sanitized)
  => ~last.raised

\* a failing custom logger has raised to the caller
C6_Witness ==
  /\ last.op = "emit"
  /\ cfg.customLogger /\ last.in.fail = "custom"
  /\ last.delivered = {"custom"}
  /\ last.raised

\* the last call was logger.shadow.enable(R), or an emission call tagged R
\* (and neither blocked for the shadow nor unserialisable nor failing in
\* the append) made while R is enabled through logger.shadow
EnabledAtRuntime(r) == r \in RunIds /\ runs[r].phase = "open"
Capturable(in) ==
  /\ ~BlocksShadow(in)
  /\ in.fail # "shadow"
  /\ ~in.cyc

\* C15 as stated: after logger.shadow.enable(R), isEnabled(R) is true and
\* the entries tagged R that follow are captured, also when the logger was
\* constructed with shadow not enabled.
C15_RuntimeEnableCaptures ==
  /\ last.op = "enable" => loggerShadowIsEnabled(cfg, ShadowState, last.run)
  /\ (/\ last.op = "emit" /\ last.included
      /\ EnabledAtRuntime(TagOf(last.in)) /\ Capturable(last.in))
     => TagOf(last.in) \in last.appended

\* C15 for a logger constructed with shadow enabled: the same statement
C15_RuntimeEnableWhenConfigured ==
  cfg.shadow.enabled =>
    /\ last.op = "enable" => loggerShadowIsEnabled(cfg, ShadowState, last.run)
    /\ (/\ last.op = "emit" /\ last.included
        /\ EnabledAtRuntime(TagOf(last.in)) /\ Capturable(last.in))
       => TagOf(last.in) \in last.appended

\* a logger constructed with shadow not enabled: after logger.shadow
\* .enable(runA) an entry tagged runA passes the scope filter and is
\* captured nowhere, and isEnabled(runA) is false
C15_Witness ==
  /\ ~cfg.shadow.enabled
  /\ last.op = "emit" /\ last.included
  /\ TagOf(last.in) = "runA" /\ Capturable(last.in)
  /\ EnabledAtRuntime("runA")
  /\ last.appended = {}
  /\ files["runA"] = <<>>
  /\ ~loggerShadowIsEnabled(cfg, ShadowState, "runA")

(***************************************************************************)
(* The scope filter over sequences of emission calls                       *)
(***************************************************************************)
Rule(action, start, end, exact, searchLog) ==
  [action |-> action, startIdentities |-> start, endIdentities |-> end,
   exactMatch |-> exact, searchLog |-> searchLog]

Scoping(identities, applications, between) ==
  [status |-> "enabled", filterIdentities |-> identities,
   filteredApplications |-> applications, between |-> between]

\* the scoping configurations explored:
\*  1 an identity list and an exclude range
\*  2 an application list naming this application, and an exclude range
\*  3 an include range and an exclude range that can be active together
\*  4 an include range without start patterns (partial matching)
\*  5 an include range without end patterns, beside an exclude range
\*  6 a range whose start pattern is also one of its end patterns, beside
\*    an include range; an identity list
\*  7 a range matched against the whole entry (message, identity, metadata)
\*  8 scoping disabled, with an identity list and an exclude range
\*  9 no scoping configuration
ScopingConfigs ==
  { Scoping(<<"src/a.ts">>, <<>>,
            <<Rule("exclude", <<"src/b.ts">>, <<"src/c.ts">>, TRUE, FALSE)>>),
    Scoping(<<>>, <<"app">>,
            <<Rule("exclude", <<"src/b.ts">>, <<"src/c.ts">>, TRUE, FALSE)>>),
    Scoping(<<>>, <<>>,
            <<Rule("include", <<"src/b.ts">>, <<"src/c.ts">>, TRUE, FALSE),
              Rule("exclude", <<"src/b.ts">>, <<"src/a.ts">>, TRUE, FALSE)>>),
    Scoping(<<>>, <<>>,
            <<Rule("include", <<>>, <<"C.TS">>, FALSE, FALSE)>>),
    Scoping(<<>>, <<>>,
            <<Rule("include", <<"src/b.ts">>, <<>>, TRUE, FALSE),
              Rule("exclude", <<"src/a.ts">>, <<"src/b.ts">>, TRUE, FALSE)>>),
    Scoping(<<"src/a.ts">>, <<>>,
            <<Rule("exclude", <<"src/b.ts">>, <<"src/c.ts", "src/b.ts">>, TRUE, FALSE),
              Rule("include", <<"src/c.ts">>, <<"src/a.ts">>, TRUE, FALSE)>>),
    Scoping(<<>>, <<>>,
            <<Rule("include", <<"begin">>, <<"src/c.ts">>, FALSE, TRUE)>>),
    [Scoping(<<"src/a.ts">>, <<>>,
             <<Rule("exclude", <<"src/b.ts">>, <<>>, TRUE, FALSE)>>)
       EXCEPT !.status = "disabled"],
    NoScoping }

\* the emission calls explored: from three call sites and from none, and
\* one whose message holds the start pattern of configuration 7
ScopeInputs ==
  { [Call EXCEPT !.identity = "src/a.ts"],
    [Call EXCEPT !.identity = "src/b.ts"],
    [Call EXCEPT !.identity = "src/c.ts"],
    [Call EXCEPT !.identity = ""],
    [Call EXCEPT !.identity = "src/a.ts", !.message = "begin work"] }

InitScope ==
  /\ cfg \in {[DefaultConfig EXCEPT !.debugScoping = sc] : sc \in ScopingConfigs}
  /\ InitShadowState

NextScope == \E in \in ScopeInputs : Emit(in)

SpecScope == InitScope /\ [][NextScope]_vars

(***************************************************************************)
(* Claims about the scope filter (checked under SpecScope)                 *)
(***************************************************************************)
\* the last step was an emission call decided by an enabled scope filter
\* that has a filter list or a between-rule
Scoped ==
  /\ last.op = "emit"
  /\ cfg.debugScoping.status = "enabled"
  /\ \/ Len(cfg.debugScoping.filterIdentities) > 0
     \/ Len(cfg.debugScoping.filteredApplications) > 0
     \/ Len(cfg.debugScoping.between) > 0

\* the rules active at the decision point of the last call, by action
ActiveWith(action) ==
  {i \in activeBetweenRanges : cfg.debugScoping.between[i].action = action}

\* the entry of the last call is named by one of the two filter lists
Listed ==
  \/ last.in.identity # "" /\ InList(cfg.debugScoping.filterIdentities, last.in.identity)
  \/ cfg.appName # "" /\ InList(cfg.debugScoping.filteredApplications, cfg.appName)

C17_ListedAlwaysIncluded ==
  (Scoped /\ Listed) => last.included

\* C17 where no exclude rule is active: a listed entry is included.
C17_ListedIncludedOutsideExclusion ==
  (Scoped /\ Listed /\ ActiveWith("exclude") = {}) => last.included

\* an entry whose identity is in filterIdentities, decided while an exclude
\* rule is active and no include rule is: it is dropped
C17_Witness ==
  /\ Scoped
  /\ InList(cfg.debugScoping.filterIdentities, last.in.identity)
  /\ ActiveWith("exclude") # {}
  /\ ActiveWith("include") = {}
  /\ ~last.included
  /\ last.delivered = {}

\* the rules of the configuration, by number
Rules == 1..Len(cfg.debugScoping.between)

\* the entry of the last call matches a pattern of the given list of rule i
EntryMatches(i, identities) ==
  ruleMatches(ruleSearchText(cfg.debugScoping.between[i], last.in.message,
                             callIdentity(MetaOf(last.in), last.in),
                             MetaOf(last.in), MetaRoot),
              identities, cfg.debugScoping.between[i].exactMatch)

\* C18 as stated: a between-rule without start patterns is active at the
\* decision for the very first entry.
C18_EmptyStartActiveAtFirst ==
  (Scoped /\ steps = 1) =>
    \A i \in Rules :
      Len(cfg.debugScoping.between[i].startIdentities) = 0 => i \in activeBetweenRanges

\* C18 as the code has it: a between-rule without start patterns is active
\* at the decision for the very first entry, without any start match,
\* unless that entry matches one of the rule's end patterns: the rule is
\* opened and closed again before the decision.
C18_EmptyStartActiveUnlessEnded ==
  (Scoped /\ steps = 1) =>
    \A i \in Rules :
      Len(cfg.debugScoping.between[i].startIdentities) = 0 =>
        (i \in activeBetweenRanges
           <=> ~EntryMatches(i, cfg.debugScoping.between[i].endIdentities))

\* a first entry that matches nothing, included by an include rule without
\* start patterns
C18_Witness ==
  /\ Scoped
  /\ steps = 1
  /\ last.before = {}
  /\ \E i \in ActiveWith("include") :
       /\ Len(cfg.debugScoping.between[i].startIdentities) = 0
       /\ ~EntryMatches(i, cfg.debugScoping.between[i].endIdentities)
  /\ ~Listed
  /\ last.included

\* C19: a between-rule without end patterns that was active before a call
\* is active at the decision point of that call, whatever the entry; so,
\* once active, it is active at the decision point of every later entry.
C19_EmptyEndStaysActive ==
  Scoped =>
    \A i \in Rules :
      (Len(cfg.debugScoping.between[i].endIdentities) = 0 /\ i \in last.before)
        => i \in activeBetweenRanges

\* a rule without end patterns, opened by an earlier entry, meets an entry
\* that matches its start pattern again and stays active, while another
\* rule is closed by the same entry
C19_Witness ==
  /\ Scoped
  /\ \E i \in Rules :
       /\ Len(cfg.debugScoping.between[i].endIdentities) = 0
       /\ i \in last.before
       /\ i \in activeBetweenRanges
  /\ \E i \in Rules :
       /\ Len(cfg.debugScoping.between[i].endIdentities) = 0
       /\ i \in last.before
       /\ EntryMatches(i, cfg.debugScoping.between[i].startIdentities)
  /\ \E j \in Rules : j \in last.before /\ j \notin activeBetweenRanges

\* C20: when the entry of a call matches both a start pattern and an end
\* pattern of one rule, the call flips that rule: active becomes inactive,
\* inactive becomes active; and a rule with start patterns none of whose
\* patterns the entry matches keeps its flag.
C20_BothMatchToggles ==
  Scoped =>
    \A i \in Rules :
      /\ (/\ EntryMatches(i, cfg.debugScoping.between[i].startIdentities)
          /\ EntryMatches(i, cfg.debugScoping.between[i].endIdentities))
           => (i \in activeBetweenRanges <=> i \notin last.before)
      /\ (/\ Len(cfg.debugScoping.between[i].startIdentities) > 0
          /\ ~EntryMatches(i, cfg.debugScoping.between[i].startIdentities)
          /\ ~EntryMatches(i, cfg.debugScoping.between[i].endIdentities))
           => (i \in activeBetweenRanges <=> i \in last.before)

\* an entry that matches a start and an end pattern of an active rule: the
\* rule is closed, and another rule, active and matching nothing, stays
\* active
C20_Witness ==
  /\ Scoped
  /\ \E i \in Rules :
       /\ EntryMatches(i, cfg.debugScoping.between[i].startIdentities)
       /\ EntryMatches(i, cfg.debugScoping.between[i].endIdentities)
       /\ i \in last.before
       /\ i \notin activeBetweenRanges
       /\ \E j \in Rules \ {i} : j \in last.before /\ j \in activeBetweenRanges

\* C21: when scoping is disabled (no scoping configuration, or a status
\* other than 'enabled') every entry is included, whatever its identity,
\* application name, message and metadata and whatever came before it; the
\* between-rules of a disabled configuration are never opened.
C21_DisabledIncludesAll ==
  (last.op = "emit" /\ cfg.debugScoping.status # "enabled") =>
    /\ last.included
    /\ activeBetweenRanges = {}

\* with scoping disabled and an identity list and an exclude rule
\* configured, a later entry named by no list is included and delivered
C21_Witness ==
  /\ last.op = "emit"
  /\ cfg.debugScoping.status = "disabled"
  /\ Len(cfg.debugScoping.between) > 0
  /\ steps >= 2
  /\ last.in.identity = "src/c.ts"
  /\ ~Listed
  /\ last.included
  /\ last.delivered # {}

(***************************************************************************)
(* The scoping configuration as it reaches the logger: parsed from         *)
(* logger-debug.json by loadDebugConfig, or passed as the debugScoping     *)
(* option of createLogger.  A raw configuration records, for every field   *)
(* the code reads, what kind of value it holds.                            *)
(***************************************************************************)
\* the value of a list field: an array of strings, an array of other values
\* (items holds their String() text, which no identity of the inputs
\* equals), a non-array object, or undefined
RawList(kind, items, strings) == [kind |-> kind, items |-> items, strings |-> strings]
Strings(items) == RawList("array", items, TRUE)
Numbers(items) == RawList("array", items, FALSE)
NotArray == RawList("object", <<>>, FALSE)
Missing == RawList("undefined", <<>>, FALSE)

RawRule(action, start, end, exact) ==
  [action |-> action, startIdentities |-> start, endIdentities |-> end,
   exactMatch |-> exact, searchLog |-> FALSE]

\* present: there is a configuration object; hasScoping: it has a `scoping'
\* field; between: a RawList whose items are raw rules
RawScoping(status, identities, applications, between) ==
  [present |-> TRUE, hasScoping |-> TRUE, status |-> status,
   filterIdentities |-> identities, filteredApplications |-> applications,
   between |-> between]

\* null: no configuration
NullScoping ==
  [RawScoping("", Missing, Missing, Missing) EXCEPT !.present = FALSE, !.hasScoping = FALSE]

\* {}: a configuration object without the `scoping' field
EmptyObject == [RawScoping("", Missing, Missing, Missing) EXCEPT !.hasScoping = FALSE]

\* the body of loadDebugConfig once the file is found and parsed: the
\* configuration if it passes the validation, null otherwise
loadDebugConfig(config) ==
  IF ~(config.present /\ config.hasScoping) THEN NullScoping
  ELSE IF config.status \notin {"enabled", "disabled"} THEN NullScoping
  ELSE IF config.filterIdentities.kind = "object" THEN NullScoping
  ELSE IF config.filteredApplications.kind = "object" THEN NullScoping
  ELSE IF config.between.kind = "undefined" THEN config
  ELSE IF config.between.kind # "array" THEN NullScoping
  ELSE IF \E i \in 1..Len(config.between.items) :
            \/ config.between.items[i].action \notin {"include", "exclude"}
            \/ config.between.items[i].startIdentities.kind # "array"
            \/ config.between.items[i].endIdentities.kind # "array"
       THEN NullScoping
  ELSE config

\* the configuration the constructor keeps: userConfig.debugScoping if
\* given, otherwise what loadDebugConfig returned
constructedScoping(route, config) ==
  IF route = "option" THEN config ELSE loadDebugConfig(config)

\* the items a list field contributes where the code reads its length
ListItems(list) == IF list.kind = "array" THEN list.items ELSE <<>>

\* a raw configuration every field of which has the declared kind, in the
\* form the scope filter of the model takes; a field without a length
\* counts as an empty list
TypedScoping(config) ==
  IF ~(config.present /\ config.hasScoping) THEN NoScoping
  ELSE [status |-> config.status,
        filterIdentities |-> ListItems(config.filterIdentities),
        filteredApplications |-> ListItems(config.filteredApplications),
        between |-> [i \in 1..Len(ListItems(config.between)) |->
                       [config.between.items[i] EXCEPT
                          !.startIdentities = ListItems(@),
                          !.endIdentities = ListItems(@)]]]

\* LogsGateway.matchesIdentity raises a TypeError: identity.toLowerCase is
\* not a function
matchesIdentityThrows(searchString, list, exactMatch) ==
  /\ searchString # ""
  /\ list.kind = "array"
  /\ Len(list.items) > 0
  /\ ~list.strings
  /\ ~exactMatch

\* rule i raises a TypeError in the second loop of updateBetweenRangeState
ruleThrows(rule, searchText) ==
  \/ matchesIdentityThrows(searchText, rule.startIdentities, rule.exactMatch)
  \/ rule.endIdentities.kind # "array"
  \/ matchesIdentityThrows(searchText, rule.endIdentities, rule.exactMatch)

\* the second loop of updateBetweenRangeState over raw rules, from rule i
\* on: whether it raises, and the active ranges it leaves
RECURSIVE RawBetweenLoop(_,_,_,_,_)
RawBetweenLoop(rules, typed, i, ranges, identity) ==
  IF i > Len(rules) THEN [throws |-> FALSE, ranges |-> ranges]
  ELSE IF ruleThrows(rules[i], identity) THEN [throws |-> TRUE, ranges |-> ranges]
  ELSE RawBetweenLoop(rules, typed, i + 1,
                      ruleStep(typed[i], i, ranges, identity), identity)

\* the rules the first loop of updateBetweenRangeState opens before it
\* reaches rule `stop'
OpenedBefore(rules, stop) ==
  {i \in 1..(stop - 1) :
     rules[i].startIdentities.kind = "array" /\ Len(rules[i].startIdentities.items) = 0}

\* the rules whose startIdentities has no length to read
NoStartList(rules) == {i \in 1..Len(rules) : rules[i].startIdentities.kind # "array"}

Least(S) == CHOOSE i \in S : \A j \in S : i <= j

\* LogsGateway.shouldIncludeLog on the configuration the constructor kept:
\* "throws" with the active ranges left behind, "excluded" where the typed
\* form does not tell, and "typed" where the scope filter of the model
\* decides (rules search the identity only)
rawShouldIncludeLog(config, ranges, identity) ==
  IF ~config.present THEN [outcome |-> "typed", ranges |-> ranges]
  ELSE IF ~config.hasScoping THEN [outcome |-> "throws", ranges |-> ranges]
  ELSE IF config.status # "enabled" THEN [outcome |-> "typed", ranges |-> ranges]
  ELSE IF Len(ListItems(config.between)) = 0
       THEN [outcome |-> IF /\ config.between.kind = "object"
                            /\ Len(ListItems(config.filterIdentities)) = 0
                            /\ Len(ListItems(config.filteredApplications)) = 0
                         THEN "excluded" ELSE "typed",
             ranges |-> ranges]
  ELSE IF NoStartList(config.between.items) # {}
       THEN [outcome |-> "throws",
             ranges |-> ranges \cup OpenedBefore(config.between.items,
                                                 Least(NoStartList(config.between.items)))]
  ELSE IF RawBetweenLoop(config.between.items, TypedScoping(config).between, 1,
                         ranges \cup OpenedBefore(config.between.items,
                                                  Len(config.between.items) + 1),
                         identity).throws
       THEN [outcome |-> "throws",
             ranges |-> RawBetweenLoop(config.between.items, TypedScoping(config).between, 1,
                                       ranges \cup OpenedBefore(config.between.items,
                                                                Len(config.between.items) + 1),
                                       identity).ranges]
  ELSE [outcome |-> "typed", ranges |-> ranges]

\* the configurations explored
RawScopings ==
  { RawScoping("enabled", Strings(<<"src/a.ts">>), Missing,
               Strings(<<RawRule("exclude", Strings(<<"src/b.ts">>), Strings(<<"src/c.ts">>), TRUE)>>)),
    EmptyObject,
    RawScoping("on", Strings(<<"src/a.ts">>), Missing, Missing),
    RawScoping("enabled", Strings(<<"src/a.ts">>), Missing,
               Strings(<<RawRule("drop", Strings(<<>>), Strings(<<>>), TRUE)>>)),
    RawScoping("enabled", NotArray, Strings(<<"other">>), Missing),
    RawScoping("enabled", Strings(<<"src/a.ts">>), Missing,
               Strings(<<RawRule("include", Missing, Strings(<<"src/c.ts">>), TRUE)>>)),
    RawScoping("enabled", Missing, Missing,
               Strings(<<RawRule("include", Strings(<<>>), Strings(<<"src/c.ts">>), TRUE),
                         RawRule("exclude", Strings(<<"src/b.ts">>), NotArray, TRUE)>>)),
    RawScoping("enabled", Missing, Missing,
               Strings(<<RawRule("include", Numbers(<<"5">>), Strings(<<"src/c.ts">>), FALSE)>>)),
    RawScoping("enabled", Strings(<<"src/a.ts">>), Missing, NotArray),
    RawScoping("enabled", Missing, Missing, NotArray) }

Routes == {"file", "option"}

\* the logger constructed with the raw configuration reaching it by `route'
LoadedConfig(route, config) ==
  [route |-> route, given |-> config, kept |-> constructedScoping(route, config)]
  @@ [DefaultConfig EXCEPT !.debugScoping = TypedScoping(constructedScoping(route, config))]

InitLoad ==
  /\ cfg \in {LoadedConfig(route, config) : route \in Routes, config \in RawScopings}
  /\ InitShadowState

\* an emission call whose scope filter raised: nothing else happened
EmitThrows(in, ranges) ==
  /\ Step
  /\ activeBetweenRanges' = ranges
  /\ last' = [op |-> "emit", in |-> in, active |-> DOMAIN activeRuns,
              before |-> activeBetweenRanges,
              included |-> FALSE, levelOk |-> FALSE, buffered |-> FALSE,
              appended |-> {}, sanitized |-> FALSE, delivered |-> {},
              forwarded |-> FALSE, out |-> Undef, raised |-> TRUE]
  /\ UNCHANGED <<cfg, now, activeRuns, rollingBuffer, files, index, writes, runs>>

\* an emission call the scope filter dropped
EmitExcluded(in) ==
  /\ Step
  /\ Emitted(in, nothingEmitted(activeBetweenRanges, ShadowState))
  /\ UNCHANGED <<cfg, now, writes, runs>>

\* logger.info(message, meta) of a logger holding cfg.kept
EmitLoaded(in, scope) ==
  CASE scope.outcome = "throws" -> EmitThrows(in, scope.ranges)
    [] scope.outcome = "excluded" -> EmitExcluded(in)
    [] OTHER -> Emit(in)

NextLoad ==
  \E in \in ScopeInputs :
    EmitLoaded(in, rawShouldIncludeLog(cfg.kept, activeBetweenRanges,
                                       callIdentity(MetaOf(in), in)))

SpecLoad == InitLoad /\ [][NextLoad]_vars

(***************************************************************************)
(* Claims about the loading of the scoping configuration (SpecLoad)        *)
(***************************************************************************)
\* a pattern list of a rule that is not an array of strings
BadPatterns(list) == list.kind # "array" \/ (Len(list.items) > 0 /\ ~list.strings)

\* the configuration has a bad shape, an invalid status or action value, or
\* a list field that is not an array
Malformed(config) ==
  /\ config.present
  /\ \/ ~config.hasScoping
     \/ config.status \notin {"enabled", "disabled"}
     \/ config.filterIdentities.kind = "object"
     \/ config.filteredApplications.kind = "object"
     \/ config.between.kind = "object"
     \/ \E i \in 1..Len(ListItems(config.between)) :
          \/ config.between.items[i].action \notin {"include", "exclude"}
          \/ BadPatterns(config.between.items[i].startIdentities)
          \/ BadPatterns(config.between.items[i].endIdentities)

\* C22 as stated: a malformed scoping configuration, however it reaches the
\* logger, leaves scoping disabled: every entry is included and no emission
\* call raises an error.
C22_MalformedDisablesScoping ==
  (last.op = "emit" /\ Malformed(cfg.given)) =>
    /\ last.included
    /\ ~last.raised

\* C22 for a configuration read from logger-debug.json that the validation
\* of loadDebugConfig rejects: every entry is included, no call raises.
C22_RejectedFileDisablesScoping ==
  (/\ last.op = "emit"
   /\ cfg.route = "file"
   /\ cfg.given.present
   /\ loadDebugConfig(cfg.given) = NullScoping) =>
    /\ last.included
    /\ ~last.raised
    /\ activeBetweenRanges = {}

\* a logger given a configuration object without the scoping field as its
\* debugScoping option: the emission call raises and delivers nothing
C22_Witness ==
  /\ last.op = "emit"
  /\ cfg.route = "option"
  /\ Malformed(cfg.given)
  /\ ~cfg.given.hasScoping
  /\ last.raised
  /\ last.delivered = {}

\* a rule with an invalid action passed as the debugScoping option stays in
\* force: scoping is not disabled, an entry named by no list is dropped
C22_WitnessInvalidAction ==
  /\ last.op = "emit"
  /\ cfg.route = "option"
  /\ \E i \in 1..Len(ListItems(cfg.given.between)) :
       cfg.given.between.items[i].action \notin {"include", "exclude"}
  /\ ~last.raised
  /\ ~last.included

\* a rule with a non-string pattern passes the validation of the file and
\* the emission call raises
C22_WitnessFile ==
  /\ last.op = "emit"
  /\ cfg.route = "file"
  /\ Malformed(cfg.given)
  /\ last.raised

(***************************************************************************)
(* The level threshold: loggers of every minimum level, with and without   *)
(* the DEBUG override and the sanitizer, and calls of every level          *)
(***************************************************************************)
Levels == {"verbose", "debug", "info", "warn", "error"}

LevelConfigs ==
  {[AllOutputs EXCEPT !.logLevel = level, !.debugEnabled = debug,
                      !.sanitization = sanitization] :
     level \in Levels, debug \in BOOLEAN,
     sanitization \in {DefaultSanitization, Sanitizing}}

LevelInputs == {[Call EXCEPT !.level = level] : level \in Levels}

InitLevel ==
  /\ cfg \in LevelConfigs
  /\ InitShadowState

\* LogsGateway.isLevelEnabled
isLevelEnabled(c, level) == shouldLog(c, level)

\* logger.isLevelEnabled(level)
IsLevelEnabled(level) ==
  /\ Step
  /\ last' = [op |-> "isLevelEnabled", level |-> level,
              result |-> isLevelEnabled(cfg, level)]
  /\ UNCHANGED <<cfg, now, activeBetweenRanges, activeRuns, rollingBuffer, files,
                 index, writes, runs>>

NextLevel ==
  \/ \E in \in LevelInputs : Emit(in)
  \/ \E level \in Levels : IsLevelEnabled(level)

SpecLevel == InitLevel /\ [][NextLevel]_vars

\* the order of the levels, written out
LevelsInOrder == <<"verbose", "debug", "info", "warn", "error">>
AtLeast(level, minimum) ==
  \E i, j \in 1..Len(LevelsInOrder) :
    LevelsInOrder[i] = level /\ LevelsInOrder[j] = minimum /\ i >= j

\* the level is at least the configured minimum, or the DEBUG override is
\* on and the level is verbose or debug
Admitted(level) ==
  \/ AtLeast(level, cfg.logLevel)
  \/ cfg.debugEnabled /\ level \in {"verbose", "debug"}

\* C23: an entry that passed the scope filter goes on to the sanitizer and
\* the normal destinations if and only if its level is at least the
\* configured minimum (verbose < debug < info < warn < error) or the DEBUG
\* override is on and the level is verbose or debug: if so the sanitizer
\* runs when it is enabled and the console, file and unified-logger writers
\* receive the entry, if not nothing is sanitized or delivered; and
\* isLevelEnabled(level) returns the same decision.
C23_LevelThreshold ==
  /\ (last.op = "emit" /\ last.included) =>
       /\ last.levelOk <=> Admitted(last.in.level)
       /\ Admitted(last.in.level) =>
            /\ last.sanitized = cfg.sanitization.enabled
            /\ last.delivered = {"console", "file", "unified-logger"}
       /\ ~Admitted(last.in.level) =>
            /\ ~last.sanitized
            /\ last.delivered = {}
            /\ ~last.forwarded
  /\ last.op = "isLevelEnabled" => (last.result <=> Admitted(last.level))

\* a warn entry under minimum level warn is delivered, with the sanitizer on
C23_Witness ==
  /\ last.op = "emit"
  /\ last.included
  /\ last.in.level = "warn"
  /\ cfg.logLevel = "warn"
  /\ ~cfg.debugEnabled
  /\ last.sanitized
  /\ last.delivered = {"console", "file", "unified-logger"}

\* a debug entry under minimum level error passes by the DEBUG override,
\* while an info entry would not
C23_WitnessOverride ==
  /\ last.op = "emit"
  /\ last.in.level = "debug"
  /\ cfg.logLevel = "error"
  /\ cfg.debugEnabled
  /\ last.levelOk
  /\ ~Admitted("info")

(***************************************************************************)
(* The sanitizer on its own: new LogSanitizer(config).sanitize(message,    *)
(* meta) for a range of configurations and metadata objects                *)
(***************************************************************************)
\* the configuration the LogSanitizer constructor keeps: maxDepth is raised
\* to 1 if configured lower
LogSanitizer(config) ==
  [config EXCEPT !.maxDepth = IF @ < 1 THEN 1 ELSE @]

\* the configurations explored: depth limits 0, 1, 2 and the default, a
\* partial-mask ratio of 0.5, and key lists in which one key is on several
\* lists
SanitizerConfigs ==
  {[Sanitizing EXCEPT !.maxDepth = d] : d \in {0, 1, 2}}
  \cup {[Sanitizing EXCEPT !.partialMaskRatio = 50]}
  \cup {[Sanitizing EXCEPT !.keysDenylist = {"user.password", "config.secret", "*.token"}]}
  \cup {[Sanitizing EXCEPT !.detectEmails = FALSE, !.detectIPs = FALSE,
                           !.detectPhoneNumbers = FALSE, !.detectCreditCards = cards] :
          cards \in BOOLEAN}
  \cup {[Sanitizing EXCEPT !.keysAllowlist = allow, !.fieldsHashInsteadOfMask = hash] :
          allow \in {{}, {"password"}, {"note"}},
          hash \in {{}, {"password", "count"}, {"email", "note"}}}

\* {a: {b: {c: {password: 'hunter'}}}, note: 'hello'}
ChainMeta ==
  << Obj(<<F("a", Ref(2)), F("note", Str("hello"))>>),
     Obj(<<F("b", Ref(3))>>),
     Obj(<<F("c", Ref(4))>>),
     Obj(<<F("password", Str("hunter"))>>) >>

\* {items: ['logs-gateway-internal', {password: 'hunter'}], secret: {b: {c: {d: 'x'}}}}
ListMeta ==
  << Obj(<<F("items", Ref(2)), F("secret", Ref(4))>>),
     Arr(<<Str("logs-gateway-internal"), Ref(3)>>),
     Obj(<<F("password", Str("hunter"))>>),
     Obj(<<F("b", Ref(5))>>),
     Obj(<<F("c", Ref(6))>>),
     Obj(<<F("d", Str("x"))>>) >>

\* {Password: 'hunter', email: 'me', count: 3, note: 'logs-gateway-internal',
\*  user: {token: 'tok', name: 'ann'}}
FlatMeta ==
  << Obj(<<F("Password", Str("hunter")), F("email", Str("me")), F("count", Num(3)),
           F("note", Str("logs-gateway-internal")), F("user", Ref(2))>>),
     Obj(<<F("token", Str("tok")), F("name", Str("ann"))>>) >>

\* const m = {name: 'test'}; m.self = m
SelfMeta ==
  << Obj(<<F("name", Str("test")), F("self", Ref(1))>>) >>

\* const m = {password: 'hunter', a: {b: {}}}; m.a.b.back = m.a
LoopMeta ==
  << Obj(<<F("password", Str("hunter")), F("a", Ref(2))>>),
     Obj(<<F("b", Ref(3))>>),
     Obj(<<F("back", Ref(2))>>) >>

\* {valid: '4111111111111111', invalid: '4111111111111112',
\*  spaced: 'card 4111-1111 1111 1111 ok', bad: 'card 4111 1111 1111 1121',
\*  short: '4222222222222', long: '4111111111111111110', key: 'k4111111111111111'}
CardMeta ==
  << Obj(<<F("valid", Str("4111111111111111")), F("invalid", Str("4111111111111112")),
           F("spaced", Str("card 4111-1111 1111 1111 ok")),
           F("bad", Str("card 4111 1111 1111 1121")),
           F("short", Str("4222222222222")), F("long", Str("4111111111111111110")),
           F("key", Str("k4111111111111111"))>>) >>

\* {user: {name: 'john', password: 'hunter'}, config: {secret: 'hidden'},
\*  api: {token: 'tok'}}
NestedMeta ==
  << Obj(<<F("user", Ref(2)), F("config", Ref(3)), F("api", Ref(4))>>),
     Obj(<<F("name", Str("john")), F("password", Str("hunter"))>>),
     Obj(<<F("secret", Str("hidden"))>>),
     Obj(<<F("token", Str("tok"))>>) >>

\* const u = {password: 'hunter', name: 'ann'}; {first: u, second: u}
SharedMeta ==
  << Obj(<<F("first", Ref(2)), F("second", Ref(2))>>),
     Obj(<<F("password", Str("hunter")), F("name", Str("ann"))>>) >>

SanitizeHeaps ==
  {ChainMeta, ListMeta, FlatMeta, SelfMeta, LoopMeta, CardMeta, NestedMeta, SharedMeta}

\* the calls explored; expire: the clock checks of the call that find the
\* 100ms budget unspent
SanitizeInputs ==
  [heap : SanitizeHeaps, message : {"hello", "key logs-gateway-internal"},
   expire : {0, 1, 2, 3, MaxChecks}]

InitSanitize ==
  /\ cfg \in {[DefaultConfig EXCEPT !.sanitization = sc] : sc \in SanitizerConfigs}
  /\ InitShadowState

\* the number of sanitize calls explored in a row: a call leaves nothing
\* behind in the sanitizer, so the calls of a sequence do not differ from
\* single calls
MaxCalls == 2

\* new LogSanitizer(cfg.sanitization).sanitize(in.message, meta); the card
\* numbers go to the sanitizers that do not call the sanitize-pii package
Sanitize(in) ==
  /\ steps < MaxCalls
  /\ steps' = steps + 1
  /\ in.heap = CardMeta => ~PiiDetection(cfg.sanitization)
  /\ last' = [op |-> "sanitize", in |-> in,
              result |-> sanitize([expire |-> in.expire] @@ LogSanitizer(cfg.sanitization),
                                  in.heap, in.message, MetaRoot)]
  /\ UNCHANGED <<cfg, now, activeBetweenRanges, activeRuns, rollingBuffer, files,
                 index, writes, runs>>

NextSanitize == \E in \in SanitizeInputs : Sanitize(in)

SpecSanitize == InitSanitize /\ [][NextSanitize]_vars

(***************************************************************************)
(* Claims about the sanitizer (checked under SpecSanitize)                 *)
(***************************************************************************)
\* the key is on none of the three key lists of the configuration
PolicyFree(sc, key) ==
  ToLower(key) \notin sc.keysAllowlist \cup sc.fieldsHashInsteadOfMask \cup sc.keysDenylist

\* the values the traversal hands on with depth + 1: the items of an array,
\* and the non-string values of an object under keys on no list
Handed(sc, node) ==
  IF IsArr(node) THEN {i \in 1..Len(node.arr) : TRUE}
  ELSE IF IsObj(node)
       THEN {i \in 1..Len(node.obj) :
               PolicyFree(sc, node.obj[i].k) /\ ~IsStr(node.obj[i].v)}
  ELSE {}

Child(node, i) == IF IsArr(node) THEN node.arr[i] ELSE node.obj[i].v

\* in the output out of the input value v met at `depth', every value
\* handed on to a depth greater than limit is the input value itself
RECURSIVE CutoffKept(_,_,_,_,_,_)
CutoffKept(sc, heap, v, out, depth, limit) ==
  IF depth > limit THEN out = v
  ELSE IF ~IsRef(v) THEN TRUE
  ELSE /\ IsArr(heap[v.ref]) => IsArr(out)
       /\ IsObj(heap[v.ref]) => IsObj(out)
       /\ \A i \in Handed(sc, heap[v.ref]) :
            CutoffKept(sc, heap, Child(heap[v.ref], i), Child(out, i), depth + 1, limit)

\* some value is handed on to a depth greater than limit
RECURSIVE Deeper(_,_,_,_,_)
Deeper(sc, heap, v, depth, limit) ==
  IF depth > limit THEN TRUE
  ELSE IF ~IsRef(v) THEN FALSE
  ELSE \E i \in Handed(sc, heap[v.ref]) :
         Deeper(sc, heap, Child(heap[v.ref], i), depth + 1, limit)

\* the number of values of the input that the output replaced
RECURSIVE Changes(_,_,_)
RECURSIVE ChangesFrom(_,_,_,_)
Changes(heap, v, out) ==
  IF out = v THEN 0
  ELSE IF IsRef(v) /\ IsArr(heap[v.ref]) /\ IsArr(out)
       THEN ChangesFrom(heap, heap[v.ref], out, 1)
  ELSE IF IsRef(v) /\ IsObj(heap[v.ref]) /\ IsObj(out)
       THEN ChangesFrom(heap, heap[v.ref], out, 1)
  ELSE 1
ChangesFrom(heap, node, out, i) ==
  IF i > (IF IsArr(node) THEN Len(node.arr) ELSE Len(node.obj)) THEN 0
  ELSE Changes(heap, Child(node, i), Child(out, i)) + ChangesFrom(heap, node, out, i + 1)

\* the last step sanitized, within the budget, a metadata object in which
\* no object is met twice
SanitizedWhole ==
  /\ last.op = "sanitize"
  /\ last.in.expire = MaxChecks
  /\ last.in.heap \notin {SelfMeta, LoopMeta, SharedMeta}

\* the redactions of the message: one if it was changed
MessageChanges == IF last.result.message # last.in.message THEN 1 ELSE 0

\* the depth cutoff at `limit': values handed on to a greater depth are
\* returned as they are, the result is marked truncated, and the redaction
\* count is the number of values replaced
CutoffAt(limit) ==
  /\ CutoffKept(cfg.sanitization, last.in.heap, MetaRoot, last.result.data, 0, limit)
  /\ Deeper(cfg.sanitization, last.in.heap, MetaRoot, 0, limit) => last.result.truncated
  /\ last.result.redactionCount
       = MessageChanges + Changes(last.in.heap, MetaRoot, last.result.data)

\* C24 as stated: values nested deeper than the configured max depth are
\* returned unmodified, not counted as redactions, and the result is marked
\* truncated.
C24_ConfiguredDepthCutoff ==
  SanitizedWhole => CutoffAt(cfg.sanitization.maxDepth)

\* C24 as the code has it: the cutoff is at the effective max depth, the
\* configured one raised to 1 if lower: every value the traversal hands on
\* to a greater depth is returned as it is in the input (not masked, not
\* hashed, not counted as a redaction) and the result is marked truncated.
C24_EffectiveDepthCutoff ==
  SanitizedWhole =>
    CutoffAt(IF cfg.sanitization.maxDepth < 1 THEN 1 ELSE cfg.sanitization.maxDepth)

\* maxDepth 2 and {a: {b: {c: {password: 'hunter'}}}}: the object under c is
\* the caller's, its password still 'hunter', and the result is truncated
C24_Witness ==
  /\ SanitizedWhole
  /\ cfg.sanitization.maxDepth = 2
  /\ last.in.heap = ChainMeta
  /\ last.in.message = "hello"
  /\ Prop(last.in.heap, Prop(last.in.heap, Prop(last.in.heap, last.result.data, "a"), "b"), "c")
       = Ref(4)
  /\ Prop(last.in.heap, Ref(4), "password") = Str("hunter")
  /\ last.result.truncated
  /\ last.result.redactionCount = 0

\* the sanitization-error result: the message is the mask token, the
\* metadata is the error marker, no redaction is counted
ErrorResult ==
  /\ last.result.message = cfg.sanitization.maskWith
  /\ last.result.data
       = Obj(<<F("_sanitization", Obj(<<F("sanitizationError", Bool(TRUE)),
                                        F("redactionCount", Num(0)),
                                        F("truncated", Bool(TRUE))>>))>>)
  /\ last.result.redactionCount = 0

\* the metadata object of the last call has itself as one of its values
SelfReferring ==
  /\ last.op = "sanitize"
  /\ \E i \in 1..Len(last.in.heap[1].obj) : last.in.heap[1].obj[i].v = MetaRoot

\* C25 as stated: sanitizing metadata that contains a reference to itself
\* yields the sanitization-error result, whatever else happens in the call.
C25_SelfReferenceIsError ==
  SelfReferring => ErrorResult

\* C25 as the code has it: the call always returns; it yields the
\* sanitization-error result when the traversal reaches the self-reference
\* with time budget left, and otherwise (the budget was found spent before)
\* an ordinary result marked truncated.  Three clock checks come before
\* the traversal meets the self-reference: for the message, for the object
\* and for the reference.
C25_SelfReferenceReached ==
  SelfReferring =>
    IF last.in.expire >= 3 THEN ErrorResult
    ELSE /\ last.result.truncated
         /\ last.result.data # SanitizationErrorData

\* the test's call: {name: 'test', self: <itself>} within the budget, with a
\* message that alone would have been redacted
C25_Witness ==
  /\ SelfReferring
  /\ last.in.heap = SelfMeta
  /\ last.in.expire = MaxChecks
  /\ last.in.message = "key logs-gateway-internal"
  /\ ErrorResult

\* no object or array of the input that the traversal is handed appears in
\* the output as the mask token
RECURSIVE NoWholesaleMask(_,_,_,_)
NoWholesaleMask(sc, heap, v, out) ==
  IF ~IsRef(v) \/ out = v THEN TRUE
  ELSE /\ out # Str(sc.maskWith)
       /\ \A i \in Handed(sc, heap[v.ref]) :
            NoWholesaleMask(sc, heap, Child(heap[v.ref], i), Child(out, i))

\* the last step sanitized a metadata object in which no object is met
\* twice
SanitizedAcyclic ==
  /\ last.op = "sanitize"
  /\ last.in.heap \notin {SelfMeta, LoopMeta, SharedMeta}

\* C26 as stated: when the time budget expires during a call, whatever is
\* not yet processed is returned unmodified: no object of the metadata is
\* replaced by the mask token; and if the budget is spent by the time the
\* metadata is reached, the metadata is the caller's object, nothing of it
\* is counted as a redaction, and the result is marked truncated.
C26_ExpiryKeepsRest ==
  SanitizedAcyclic =>
    /\ NoWholesaleMask(cfg.sanitization, last.in.heap, MetaRoot, last.result.data)
    /\ last.in.expire <= 1 =>
         /\ last.result.data = MetaRoot
         /\ last.result.redactionCount = MessageChanges
         /\ last.result.truncated

\* C26 for the message: when the budget is spent at the first clock check
\* the message is returned unmodified and not counted, and the result is
\* marked truncated.
C26_ExpiryKeepsMessage ==
  (SanitizedAcyclic /\ last.in.expire = 0) =>
    /\ last.result.message = last.in.message
    /\ last.result.truncated

\* what the code does to the metadata: when the budget is spent by the time
\* the metadata is reached, the metadata is replaced by the mask token and
\* counted as one redaction.
C26_ExpiryMasksMetadata ==
  (SanitizedAcyclic /\ last.in.expire <= 1) =>
    /\ last.result.data = Str(cfg.sanitization.maskWith)
    /\ last.result.redactionCount = MessageChanges + 1
    /\ last.result.truncated

\* the budget is spent when the metadata is reached: the whole metadata
\* object comes back as the mask token, counted as a redaction
C26_Witness ==
  /\ SanitizedAcyclic
  /\ last.in.heap = FlatMeta
  /\ last.in.message = "hello"
  /\ last.in.expire = 1
  /\ last.result.message = "hello"
  /\ last.result.data = Str("[REDACTED]")
  /\ last.result.redactionCount = 1
  /\ last.result.truncated

\* the output `out' of the input value v met at `depth' is what the
\* per-key order of the claim gives: for each key of an object, the value
\* itself if the key is allowlisted; else, if the key is on the hash list,
\* the digest of a string value (another value as it is); else the mask
\* token if the key is denylisted; else the pattern-detected string; else
\* the output of the same rules on the value
RECURSIVE PolicyOrder(_,_,_,_,_)
PolicyOrder(sc, heap, v, out, depth) ==
  IF depth > sc.maxDepth THEN out = v
  ELSE IF IsStr(v) THEN out = Str(detectAndMask(sc, v.str))
  ELSE IF ~IsRef(v) THEN out = v
  ELSE IF IsArr(heap[v.ref])
       THEN /\ IsArr(out)
            /\ Len(out.arr) = Len(heap[v.ref].arr)
            /\ \A i \in 1..Len(out.arr) :
                 PolicyOrder(sc, heap, heap[v.ref].arr[i], out.arr[i], depth + 1)
  ELSE /\ IsObj(out)
       /\ Len(out.obj) >= Len(heap[v.ref].obj)
       /\ \A i \in 1..Len(heap[v.ref].obj) :
            LET key == ToLower(heap[v.ref].obj[i].k)
                value == heap[v.ref].obj[i].v
            IN /\ out.obj[i].k = heap[v.ref].obj[i].k
               /\ IF key \in sc.keysAllowlist THEN out.obj[i].v = value
                  ELSE IF key \in sc.fieldsHashInsteadOfMask
                       THEN out.obj[i].v = (IF IsStr(value) THEN Str(hashValue(value.str))
                                            ELSE value)
                  ELSE IF key \in sc.keysDenylist THEN out.obj[i].v = Str(sc.maskWith)
                  ELSE IF IsStr(value) THEN out.obj[i].v = Str(detectAndMask(sc, value.str))
                  ELSE PolicyOrder(sc, heap, value, out.obj[i].v, depth + 1)

C27_WitnessHash ==
  /\ SanitizedWhole
  /\ last.in.heap = FlatMeta
  /\ cfg.sanitization.keysAllowlist = {}
  /\ "password" \in cfg.sanitization.fieldsHashInsteadOfMask
  /\ Prop(last.in.heap, last.result.data, "Password") = Str(hashValue("hunter"))

\* `out' ends with a non-empty tail of `original' and is not the original
KeepsTail(original, out) ==
  /\ out # original
  /\ \E k \in 1..(Len(original) - 1) :
       /\ Len(out) >= k
       /\ SubSeq(out, Len(out) - k + 1, Len(out))
            = SubSeq(original, Len(original) - k + 1, Len(original))

\* the root fields of the metadata the key policy masks: denylisted keys on
\* neither the allowlist nor the hash list, with a string value
MaskedFields ==
  {i \in 1..Len(last.in.heap[1].obj) :
     /\ keyPolicy(LogSanitizer(cfg.sanitization), ToLower(last.in.heap[1].obj[i].k)) = "mask"
     /\ IsStr(last.in.heap[1].obj[i].v)}

\* C28: with a partial-mask ratio below 1.0 a masked value keeps a trailing
\* part of its original characters and only the remainder is replaced.
C28_PartialMaskKeepsTail ==
  (SanitizedWhole /\ cfg.sanitization.partialMaskRatio < 100) =>
    \A i \in MaskedFields :
      /\ IsStr(last.result.data.obj[i].v)
      /\ KeepsTail(last.in.heap[1].obj[i].v.str, last.result.data.obj[i].v.str)

\* what the sanitizer does whatever the ratio: a masked value is the whole
\* mask token
C28_RatioIgnored ==
  SanitizedWhole =>
    \A i \in MaskedFields : last.result.data.obj[i].v = Str(cfg.sanitization.maskWith)

\* a sanitizer with ratio 0.5 has masked the value 'hunter' under Password
C28_Witness ==
  /\ SanitizedWhole
  /\ cfg.sanitization.partialMaskRatio = 50
  /\ last.in.heap = FlatMeta
  /\ 1 \in MaskedFields
  /\ last.in.heap[1].obj[1].v = Str("hunter")
  /\ last.result.data.obj[1].v = Str("[REDACTED]")

\* the digits of a string, in order
RECURSIVE DigitsOf(_)
DigitsOf(str) ==
  IF Len(str) = 0 THEN ""
  ELSE (IF CharAt(str, 1) \in DigitChars THEN CharAt(str, 1) ELSE "")
       \o DigitsOf(SubSeq(str, 2, Len(str)))

\* the Luhn sum of the digits from position k on: every second digit from
\* the right is doubled, and 9 subtracted from a result above 9
RECURSIVE DoubledSum(_,_)
DoubledSum(digits, k) ==
  IF k > Len(digits) THEN 0
  ELSE LET d == parseInt(CharAt(digits, k))
           second == (Len(digits) - k) % 2 = 1
       IN (IF ~second THEN d ELSE IF 2 * d > 9 THEN 2 * d - 9 ELSE 2 * d)
          + DoubledSum(digits, k + 1)

LuhnPasses(digits) == DoubledSum(digits, 1) % 10 = 0

\* the root fields of the metadata that hold a string with digits under a
\* key on no list
DigitFields ==
  {i \in 1..Len(last.in.heap[1].obj) :
     /\ keyPolicy(LogSanitizer(cfg.sanitization), ToLower(last.in.heap[1].obj[i].k)) = "none"
     /\ IsStr(last.in.heap[1].obj[i].v)
     /\ DigitsOf(last.in.heap[1].obj[i].v.str) # ""}

OptsConfigs ==
  {[DefaultShadow EXCEPT !.respectRoutingBlocks = respect] : respect \in BOOLEAN}

\* opts.respectRoutingBlocks of an enable call
RespectOptions == {"unset", "true", "false"}

\* the write calls explored: tagged entries with and without a routing
\* directive that blocks the shadow or the file destination
OptsInputs ==
  { In("runA", "", <<>>, FALSE), In("runA", "", <<"shadow">>, FALSE),
    In("runB", "", <<"file">>, FALSE), In("runB", "runA", <<"shadow">>, FALSE) }

InitOpts ==
  /\ cfg \in {[DefaultConfig EXCEPT !.shadow = s] : s \in OptsConfigs}
  /\ InitShadowState

NextOpts ==
  \/ \E in \in OptsInputs : SinkWrite(in)
  \/ \E r \in RunIds, respect \in RespectOptions : SinkEnable(r, respect, {})
  \/ \E r \in RunIds : SinkDisable(r)

SpecOpts == InitOpts /\ [][NextOpts]_vars

\* the last call wrote an entry whose routing directive blocks 'file' or
\* 'shadow' and whose resolved run is active
BlockedForActiveRun ==
  /\ last.op = "write"
  /\ BlocksShadow(last.in)
  /\ TagOf(last.in) \in last.active

\* C30: the respectRoutingBlocks option of enable(runId, opts) decides for
\* that run: an entry whose routing directive blocks 'file' or 'shadow' is
\* captured by a run enabled with respectRoutingBlocks=false and skipped by
\* a run enabled with respectRoutingBlocks=true, whatever the recorder-wide
\* setting is.
C30_RunOptionsOverride ==
  BlockedForActiveRun =>
    (TagOf(last.in) \in last.appended
       <=> ~activeRuns[TagOf(last.in)].respectRoutingBlocks)

\* what the recorder does: the recorder-wide setting alone decides
C30_RecorderSettingDecides ==
  BlockedForActiveRun =>
    (TagOf(last.in) \in last.appended <=> ~cfg.shadow.respectRoutingBlocks)

\* a run enabled with respectRoutingBlocks=false under a recorder that
\* honours routing blocks has been sent a blocking entry and has not
\* captured it
C30_Witness ==
  /\ BlockedForActiveRun
  /\ cfg.shadow.respectRoutingBlocks
  /\ ~activeRuns[TagOf(last.in)].respectRoutingBlocks
  /\ last.appended = {}

\* a run enabled with respectRoutingBlocks=true under a recorder that does
\* not honour routing blocks has captured a blocking entry
C30_WitnessCaptured ==
  /\ BlockedForActiveRun
  /\ ~cfg.shadow.respectRoutingBlocks
  /\ activeRuns[TagOf(last.in)].respectRoutingBlocks
  /\ TagOf(last.in) \in last.appended

(***************************************************************************)
(* Further claims about the recorder's storage (checked under SpecStore)   *)
(***************************************************************************)
\* the expired runs other than the one whose file operation fails
OtherExpired == ExpiredBefore \ {last.fault.run}

\* C31: in cleanupExpired a failure while processing one stored run is
\* skipped: the call returns, and every other expired run is still deleted
\* and counted.
C31_FailureSkipsOneRun ==
  (last.op = "cleanup" /\ last.fault # NoFault) =>
    /\ \A r \in OtherExpired : index[r] = NoIndex /\ files[r] = <<>>
    /\ last.count >= Cardinality(OtherExpired)

\* what the scan keeps when an operation fails: nothing but expired runs is
\* deleted, the failing run keeps its storage, and the count is the number
\* of runs deleted before the failure
C31_FailureEndsScan ==
  (last.op = "cleanup" /\ last.fault # NoFault) =>
    /\ last.touched \subseteq OtherExpired
    /\ last.count = Cardinality(last.touched)
    /\ last.fault.run \in Stored(last.stored) => index[last.fault.run] # NoIndex

\* both stored runs are expired, the delete of one of them fails and the
\* other, expired and intact, keeps its manifest and is not counted
C31_Witness ==
  /\ last.op = "cleanup"
  /\ last.fault.kind = "delete"
  /\ ExpiredBefore = RunIds
  /\ \E r \in OtherExpired : index[r] # NoIndex
  /\ last.count = 0

(***************************************************************************)
(* Further claims about the sanitizer (checked under SpecSanitize)         *)
(***************************************************************************)
\* the denylist names the key `inner' of the object under the root key
\* `outer' by a dotted path or by a wildcard path
PathDenied(sc, outer, inner) ==
  \/ (ToLower(outer) \o "." \o ToLower(inner)) \in sc.keysDenylist
  \/ ("*." \o ToLower(inner)) \in sc.keysDenylist

\* the pairs <<i, j>>: field j of the object under root field i of the
\* metadata is named by a path of the denylist
DeniedPaths ==
  {p \in (1..Len(last.in.heap[1].obj)) \X (1..2) :
     LET outer == last.in.heap[1].obj[p[1]]
     IN /\ IsRef(outer.v)
        /\ IsObj(last.in.heap[outer.v.ref])
        /\ p[2] <= Len(last.in.heap[outer.v.ref].obj)
        /\ PathDenied(cfg.sanitization, outer.k, last.in.heap[outer.v.ref].obj[p[2]].k)}

\* C32: a denylist entry written as a dotted or wildcard path causes the
\* value at that nested key to be replaced by the mask token.
C32_PathEntryMasks ==
  SanitizedWhole =>
    \A p \in DeniedPaths :
      last.result.data.obj[p[1]].v.obj[p[2]].v = Str(cfg.sanitization.maskWith)

\* what the sanitizer does with a path entry: the value at the nested key is
\* treated as under a key on no list
C32_PathEntryIgnored ==
  SanitizedWhole =>
    \A p \in DeniedPaths :
      LET value == last.in.heap[last.in.heap[1].obj[p[1]].v.ref].obj[p[2]].v
      IN last.result.data.obj[p[1]].v.obj[p[2]].v
           = Str(detectAndMask(cfg.sanitization, value.str))

\* with the denylist 'user.password', 'config.secret', '*.token' the
\* password, the secret and the token come back as given, uncounted
C32_Witness ==
  /\ SanitizedWhole
  /\ last.in.heap = NestedMeta
  /\ last.in.message = "hello"
  /\ Cardinality(DeniedPaths) = 3
  /\ Prop(last.in.heap, Prop(last.in.heap, last.result.data, "user"), "password")
       = Str("hunter")
  /\ Prop(last.in.heap, Prop(last.in.heap, last.result.data, "config"), "secret")
       = Str("hidden")
  /\ Prop(last.in.heap, Prop(last.in.heap, last.result.data, "api"), "token") = Str("tok")
  /\ last.result.redactionCount = 0

(***************************************************************************)
(* Further claims about the recorder (checked under SpecShadow)            *)
(***************************************************************************)
\* the clock at the last write call
LastWriteAt == writes[Len(writes)].ts

\* C33: after every write, whether or not a run is active, the rolling
\* buffer holds at most maxEntries entries and, when maxAgeMs > 0, no entry
\* older than maxAgeMs at the time of the write; with maxEntries = 0 the
\* buffer is always empty.
C33_BufferBounded ==
  /\ cfg.shadow.maxEntries = 0 => rollingBuffer = << >>
  /\ last.op = "write" =>
       /\ Len(rollingBuffer) <= cfg.shadow.maxEntries
       /\ cfg.shadow.maxAgeMs > 0 =>
            \A i \in 1..Len(rollingBuffer) :
              LastWriteAt - rollingBuffer[i].timestamp <= cfg.shadow.maxAgeMs

\* a write with no run active has filled the buffer to its limit, after an
\* older entry was evicted by age
C33_Witness ==
  /\ last.op = "write"
  /\ last.active = {}
  /\ cfg.shadow.maxAgeMs > 0
  /\ Len(rollingBuffer) = cfg.shadow.maxEntries
  /\ now = LastWriteAt
  /\ \E i \in 1..Len(writes) : now - writes[i].ts > cfg.shadow.maxAgeMs

\* a write with no run active has evicted the oldest entry by count
C33_WitnessCount ==
  /\ last.op = "write"
  /\ last.active = {}
  /\ cfg.shadow.maxAgeMs = 0
  /\ Len(rollingBuffer) = cfg.shadow.maxEntries
  /\ Len(writes) > cfg.shadow.maxEntries
  /\ cfg.shadow.maxEntries > 0

(***************************************************************************)
(* Claims about the manifest (checked under SpecOpts, where no file        *)
(* operation fails and there is no rolling buffer)                         *)
(***************************************************************************)
\* C34: after any sequence of enable, write, disable and repeated enable
\* calls in which no file operation fails, the entry count stored in a run's manifest
\* equals the number of records in that run's data file.
C34_ManifestCountsRecords ==
  \A r \in RunIds :
    index[r] # NoIndex => index[r].entryCount = Len(files[r])

\* the records of run r appended since its last enable
SinceEnable(r) == {i \in 1..Len(files[r]) : files[r][i].seq > runs[r].w0}

\* what the manifest counts: the records appended since the last enable
C34_CountsSinceEnable ==
  \A r \in RunIds :
    index[r] # NoIndex => index[r].entryCount = Cardinality(SinceEnable(r))

\* a run enabled twice has a record from before the second enable and one
\* from after it in its data file, and a manifest that counts one entry
C34_Witness ==
  \E r \in RunIds :
    /\ runs[r].enables = 2
    /\ last.op = "write" /\ r \in last.appended
    /\ Len(files[r]) = 2
    /\ index[r].entryCount = 1

(***************************************************************************)
(* Claims about replay (checked under SpecShadow)                          *)
(***************************************************************************)
\* the records of the data file of run r that come from write call i
RecordsOf(r, i) == {k \in 1..Len(files[r]) : files[r][k].seq = i}

\* C35: each write call contributes at most one record to a given run's
\* data file: an entry already appended while the run was active, or
\* already replayed by an earlier enable, is not appended again by a later
\* enable of the same run.
C35_AtMostOneRecordPerWrite ==
  \A r \in RunIds : \A i \in 1..Len(writes) : Cardinality(RecordsOf(r, i)) <= 1

\* what holds of write itself: the call appends at most one record, to the
\* file of one run
C35_WriteAppendsOnce ==
  [][last'.op = "write" =>
       /\ Cardinality(last'.appended) <= 1
       /\ \A r \in RunIds : Len(files'[r]) <= Len(files[r]) + 1]_vars

\* the second enable of a run has replayed, from the buffer, an entry that
\* write had appended while the run was active
C35_Witness ==
  \E r \in RunIds :
    /\ last.op = "enable" /\ last.run = r
    /\ runs[r].enables = 2
    /\ \E i \in 1..Len(last.replayed) :
         /\ Cardinality(RecordsOf(r, last.replayed[i])) = 2
         /\ writes[last.replayed[i]].in.run = r

(***************************************************************************)
(* Claims about active runs and their storage (checked under SpecStore)    *)
(***************************************************************************)
\* C36: every run in the active set has its storage directory and manifest
\* on disk; cleanupExpired never deletes the storage of an active run.
C36_ActiveRunsAreStored ==
  /\ DOMAIN activeRuns \subseteq Stored(index)
  /\ last.op = "cleanup" => last.touched \cap last.active = {}

\* what holds of the other calls: enable leaves the run stored, and write,
\* disable and export remove no storage
C36_OnlyCleanupRemoves ==
  [][/\ last'.op = "enable" => last'.run \in Stored(index')
     /\ last'.op # "cleanup" => Stored(index) \subseteq Stored(index')]_vars

\* cleanupExpired has deleted the storage of a run that is still active,
\* and a later write for that run is appended nowhere
C36_Witness ==
  \E r \in RunIds :
    /\ r \in DOMAIN activeRuns
    /\ index[r] = NoIndex
    /\ last.op = "write" /\ TagOf(last.in) = r
    /\ last.appended = {}

\* the cleanup call that deletes the storage of an active run
C36_WitnessCleanup ==
  /\ last.op = "cleanup"
  /\ last.touched \cap last.active # {}
  /\ last.touched \cap last.active \subseteq DOMAIN activeRuns

(***************************************************************************)
(* Further claims about the scope filter (checked under SpecScope)         *)
(***************************************************************************)
\* the rules without start patterns whose end patterns the entry of the
\* last call matches
EndedWithoutStart ==
  {i \in Rules :
     /\ Len(cfg.debugScoping.between[i].startIdentities) = 0
     /\ EntryMatches(i, cfg.debugScoping.between[i].endIdentities)}

\* C37 as stated: for a rule without start patterns an entry that matches
\* an end pattern is handled as matching both start and end and flips the
\* flag the rule had before the call.
C37_EndMatchFlips ==
  Scoped =>
    \A i \in EndedWithoutStart : (i \in activeBetweenRanges <=> i \notin last.before)

\* C37 amended: for a rule without start patterns the start condition never
\* counts as matched; an entry that matches one of the rule's end patterns
\* deactivates the rule, whatever its flag was before the call.
C37_EndMatchDeactivates ==
  Scoped => \A i \in EndedWithoutStart : i \notin activeBetweenRanges

\* a rule without start patterns, closed by an earlier entry, meets a
\* second entry that matches its end pattern and is still closed
C37_Witness ==
  /\ Scoped
  /\ steps >= 2
  /\ \E i \in EndedWithoutStart : i \notin last.before /\ i \notin activeBetweenRanges
  /\ ~last.included

\* rule i was inactive when the last call began, and the entry of the call
\* matches none of its start patterns
ClosedAndNotStarted(i) ==
  /\ i \notin last.before
  /\ ~EntryMatches(i, cfg.debugScoping.between[i].startIdentities)

\* the entry of the last call matches an end pattern of rule i and none of
\* its start patterns
OnlyEndMatches(i) ==
  /\ EntryMatches(i, cfg.debugScoping.between[i].endIdentities)
  /\ ~EntryMatches(i, cfg.debugScoping.between[i].startIdentities)

\* C38: after an entry matches only an end pattern of a between-rule, the
\* rule is inactive for that entry's decision and stays inactive for every
\* later entry until an entry matches one of its start patterns; a rule
\* with no start patterns stays closed once its end has matched.
C38_ClosedUntilStart ==
  Scoped =>
    \A i \in Rules :
      /\ OnlyEndMatches(i) => i \notin activeBetweenRanges
      /\ (steps >= 2 /\ ClosedAndNotStarted(i)) => i \notin activeBetweenRanges

\* what holds: the entry that matches only an end pattern closes the rule,
\* and a rule that has start patterns stays closed until one of them is
\* matched
C38_ClosedUntilStartIfAny ==
  Scoped =>
    \A i \in Rules :
      /\ OnlyEndMatches(i) => i \notin activeBetweenRanges
      /\ (ClosedAndNotStarted(i) /\ Len(cfg.debugScoping.between[i].startIdentities) > 0)
           => i \notin activeBetweenRanges

\* what holds of a rule without start patterns: it is active at the
\* decision of every entry that matches none of its end patterns
C38_EmptyStartReopens ==
  Scoped =>
    \A i \in Rules :
      (/\ Len(cfg.debugScoping.between[i].startIdentities) = 0
       /\ ~EntryMatches(i, cfg.debugScoping.between[i].endIdentities))
        => i \in activeBetweenRanges

\* an include rule without start patterns, closed by the entry before, is
\* active again for an entry that matches nothing, and includes it
C38_Witness ==
  /\ Scoped
  /\ steps >= 2
  /\ \E i \in Rules :
       /\ Len(cfg.debugScoping.between[i].startIdentities) = 0
       /\ cfg.debugScoping.between[i].action = "include"
       /\ i \notin last.before
       /\ ~EntryMatches(i, cfg.debugScoping.between[i].endIdentities)
       /\ i \in activeBetweenRanges
  /\ ~Listed
  /\ last.included

\* the entry of the last call matches a start and an end pattern of rule i
BothMatch(i) ==
  /\ EntryMatches(i, cfg.debugScoping.between[i].startIdentities)
  /\ EntryMatches(i, cfg.debugScoping.between[i].endIdentities)

\* the entry of the last call matches no pattern of rule i
NeitherMatches(i) ==
  /\ ~EntryMatches(i, cfg.debugScoping.between[i].startIdentities)
  /\ ~EntryMatches(i, cfg.debugScoping.between[i].endIdentities)

\* rule i was inactive, the entry of the last call matched both its start
\* and its end patterns, and the next call brings an entry matching neither
SingleEntryThenOther(i) ==
  /\ Scoped /\ i \notin last.before /\ BothMatch(i)
  /\ Scoped' /\ NeitherMatches(i)'

\* C39 as stated: when an inactive rule meets an entry that matches both
\* its start and its end patterns, the rule's action applies to that entry
\* and the rule is inactive again when the next entry, matching neither
\* pattern, is evaluated.
C39_SingleEntryRange ==
  [][\A i \in Rules :
       SingleEntryThenOther(i) =>
         (i \in activeBetweenRanges /\ i \notin activeBetweenRanges')]_vars

\* C39 amended: when an inactive rule meets an entry that matches both its
\* start and its end patterns, the rule becomes active, its action applies
\* to that entry, and the rule is still active when the next entry,
\* matching neither pattern, is evaluated.
C39_BothMatchOpensRange ==
  [][\A i \in Rules :
       SingleEntryThenOther(i) =>
         (i \in activeBetweenRanges /\ i \in activeBetweenRanges')]_vars

\* every start pattern of rule i is one of its end patterns, matched
\* exactly: only an entry matching both can open the rule
OpenedByBothOnly(i) ==
  /\ cfg.debugScoping.between[i].exactMatch
  /\ ~cfg.debugScoping.between[i].searchLog
  /\ Len(cfg.debugScoping.between[i].startIdentities) > 0
  /\ \A k \in 1..Len(cfg.debugScoping.between[i].startIdentities) :
       InList(cfg.debugScoping.between[i].endIdentities,
              cfg.debugScoping.between[i].startIdentities[k])

\* the second entry, matching neither pattern, is decided while the exclude
\* rule opened by the first entry alone is still active, and is dropped
C39_Witness ==
  /\ Scoped
  /\ steps = 2
  /\ \E i \in Rules :
       /\ OpenedByBothOnly(i)
       /\ cfg.debugScoping.between[i].action = "exclude"
       /\ i \in last.before
       /\ NeitherMatches(i)
       /\ i \in activeBetweenRanges
  /\ ActiveWith("include") = {}
  /\ ~last.included

(***************************************************************************)
(* Shared objects and cycles (checked under SpecSanitize)                  *)
(***************************************************************************)
\* the references held by the values of a node, in order
NodeRefs(node) ==
  LET values == IF IsArr(node) THEN node.arr
                ELSE [i \in 1..Len(node.obj) |-> node.obj[i].v]
  IN SelectSeq(values, IsRef)

\* the objects held by object k
Targets(heap, k) == {NodeRefs(heap[k])[i].ref : i \in 1..Len(NodeRefs(heap[k]))}

\* the objects reachable from the objects of `set' in at most n steps
RECURSIVE Reach(_,_,_)
Reach(heap, set, n) ==
  IF n = 0 THEN set
  ELSE Reach(heap, set \cup UNION {Targets(heap, k) : k \in set}, n - 1)

\* some object of the heap is reachable from itself
Cyclic(heap) ==
  \E k \in 1..Len(heap) : k \in Reach(heap, Targets(heap, k), Len(heap))

\* some object of the heap is held at two places
HeldTwice(heap) ==
  \E k \in 1..Len(heap) :
    Cardinality({p \in (1..Len(heap)) \X (1..Len(heap)) :
                   /\ p[2] <= Len(NodeRefs(heap[p[1]]))
                   /\ NodeRefs(heap[p[1]])[p[2]].ref = k}) >= 2

\* C40: the sanitization-error result is produced only when the metadata
\* contains a reference cycle: metadata in which the same object is
\* reachable from two places without any cycle is sanitized normally, with
\* its redactions applied and counted.
C40_ErrorOnlyOnCycle ==
  (last.op = "sanitize" /\ ~Cyclic(last.in.heap)) =>
    /\ last.result.data # SanitizationErrorData
    /\ last.in.expire = MaxChecks =>
         last.result.redactionCount
           = MessageChanges + Changes(last.in.heap, MetaRoot, last.result.data)

\* what holds: the error result is produced only for metadata in which an
\* object is on a cycle or is held at two places
C40_ErrorOnlyOnRevisit ==
  (last.op = "sanitize" /\ last.result.data = SanitizationErrorData) =>
    Cyclic(last.in.heap) \/ HeldTwice(last.in.heap)

\* metadata holding one object under two keys, without a cycle, sanitized
\* within the budget: the result is the sanitization-error result
C40_Witness ==
  /\ last.op = "sanitize"
  /\ last.in.heap = SharedMeta
  /\ ~Cyclic(last.in.heap) /\ HeldTwice(last.in.heap)
  /\ last.in.expire = MaxChecks
  /\ ErrorResult

====
